---- MODULE Spec2Model ----
(***************************************************************************)
(* Bulk upload of the Storylinez content uploader.                         *)
(*                                                                         *)
(* scripts/bulk_content_uploader.py: perform_bulk_upload hands the file    *)
(* list to client.storage.upload_and_process_files_bulk, which reports     *)
(* every phase to progress_callback and returns one result per file.       *)
(* src/storylinez/storage.py: StorageClient.upload_file (create link, PUT, *)
(* upload/complete) and get_file_analysis (the status poll).               *)
(*                                                                         *)
(* StorageClient in storage.py defines no upload_and_process_files_bulk:   *)
(* the loop over the files and the poll loop are modelled from section 4.2 *)
(* of the specification; every other definition is modelled from the       *)
(* source lines MODEL_MAP.json gives.                                      *)
(***************************************************************************)
EXTENDS Integers, Sequences, FiniteSets, TLC

\* ------------------------------------------------------------------ bounds
MaxTasks == 2
MaxWaitTime == 5
MaxPollInterval == 2
TransferTicks == 1
MaxPollErrors == 1
MaxBatchClock == 1

\* ----------------------------------------------------------------- helpers
Min(a, b) == IF a < b THEN a ELSE b

\* dict.get(key, default)
Get(d, k, default) == IF k \in DOMAIN d THEN d[k] ELSE default

\* str(e) of an error, as its words
UploadFailedError(status_code) == <<"File upload failed with status", ToString(status_code)>>
OrgIdError == <<"ValueError", "Organization ID is required">>
LinkRequestError == <<"upload/create_link request failed">>
PutException == <<"PUT raised">>
CompleteRequestError == <<"upload/complete request failed">>
PollRequestError == <<"file/analysis request failed">>
TimeoutErrorText == <<"TimeoutError", "file may still complete in background">>
RemoteFailureText(msg) == <<msg>>

\* Responses of the pre-signed PUT: accepted, not modified, forbidden
PutStatuses == {200, 304, 403}

\* Ticks one get_file_analysis request may take
PollLatencies == {0, 1}

\* Error texts a remote analysis reports in analysis_data.error
RemoteErrors == {"unsupported codec", "analysis crashed"}

\* Status values of analysis_data.status
NonTerminalStatuses == {"QUEUED", "PROCESSING"}
TerminalStatuses == {"COMPLETED", "FAILED"}

\* The phases of one task (specification 4.2)
Phases == {"queued", "uploading", "uploaded", "processing", "polling",
           "completed", "failed", "timed_out"}
TerminalPhases == {"completed", "failed", "timed_out"}

\* The phase tags progress_callback tells apart, bulk_complete aside
TaskEvents == {"file_start", "upload_start", "upload_complete", "processing_start",
               "polling", "polling_error", "file_complete", "file_error"}

VARIABLES
    config,         \* API_KEY, API_SECRET and ORG_ID as the script has them ("": not set)
    total,          \* len(file_paths): the files are 1..total, in input order
    max_wait_time,  \* upload_settings['max_wait_time']
    poll_interval,  \* upload_settings['poll_interval']
    pc,             \* where the script is: start, rejected (run gave up), then in
                    \* perform_bulk_upload: bulk, summary, returned, cancelled
    cur,            \* the file the bulk call turns to next (total + 1: none left)
    phase,          \* phase[i]: the phase of file i
    results,        \* the outcome list of the bulk call
    bulk_events,    \* bulk_complete events reported
    last_event,     \* the event handed to progress_callback last
    shown,          \* what progress_callback printed for it
    ret,            \* return of perform_bulk_upload: [kind: pending, results, None; value]
    report,         \* the summary perform_bulk_upload printed
    \* The file whose start was reported last, and what happened for it since
    file,           \* its index (0: no file started yet)
    file_start,     \* wall clock when it started, ticks since the batch began;
                    \* MaxBatchClock stands for that long or longer
    step,           \* where upload_file is: idle, link, put, blocked, complete, done
    calls,          \* remote requests sent for it, by endpoint
    put_status,     \* status code its PUT answered (0: not answered)
    fault,          \* what made upload_file raise without an answer: none, org, link,
                    \* put, complete
    observed,       \* terminal status a poll saw ("NONE": none yet)
    remote_error,   \* analysis_data.error the remote gave with FAILED
    now,            \* wall clock, ticks since the file started
    proc_start,     \* clock when its processing phase began
    poll_count,     \* its polls so far
    last_pct,       \* file_progress_percent of its latest polling event
    emitted,        \* emitted[e]: events of tag e reported for it
    \* progress_callback called on its own, with any event value
    cb_state,       \* off, ready, returned, raised
    cb_event,       \* the value it is called with
    cb_shown,       \* what it printed
    \* scan_folder called on a folder
    scan_state,     \* off, ready, done
    scan_root,      \* what folder_path is: dir, file, missing
    scan_tree,      \* the entries below folder_path
    scan_types,     \* file_types: [given |-> FALSE] for None, else the list
    scan_recursive, \* recursive
    scan_result     \* what scan_folder returned or raised

batchVars == <<config, total, max_wait_time, poll_interval, pc, cur, phase, results, bulk_events,
               last_event, shown, ret, report>>
fileVars == <<file, file_start, step, calls, put_status, fault, observed, remote_error, now,
              proc_start, poll_count, last_pct, emitted>>
callbackVars == <<cb_state, cb_event, cb_shown>>
scanVars == <<scan_state, scan_root, scan_tree, scan_types, scan_recursive, scan_result>>
\* ---- state of the menus and clients beside the bulk upload, the callback and the scan
VARIABLES
    set_state, \* configure_upload_settings: off, ready, done
    set_input, \* what the user types at its three numeric prompts
    set_result, \* the settings it returns
    wf_pc, \* bulk_upload_workflow: off, client, folder, scan, continue, destination, confirm, upload, returned
    wf_done, \* its steps passed so far, in order
    wf_total_files, \* scan_result['total_files']
    wf_continue, \* the answer to "Continue with these files?"
    wf_destination, \* what browse_storylinez_folders_menu returned
    wf_confirm, \* the answer to "Proceed with upload?"
    wf_uploads, \* calls of perform_bulk_upload
    pl_pc, \* run_web_scraping_and_brand_extraction: off, start, wait_web, brand, wait_brand, returned, raised
    pl_log, \* the calls of utils_client it made, in order
    pl_web_job, \* what POST web-scraping returned
    pl_web_result, \* what the wait for the web scraping returned
    pl_brand_job, \* what POST brand-extraction returned
    pl_outcome, \* what the pipeline returned or raised
    rn_pc, \* the new-project branch of run: off, menu (in render_menu), wait (in wait_for_render), after_menu, done, raised
    rn_choice, \* the choice taken in render_menu: none, R, B
    rn_caller, \* who called the running wait_for_render: none, render_menu, run
    rn_jobs, \* render jobs started with create_render
    rn_waits, \* calls of wait_for_render
    rn_polls, \* get_render requests of the running wait_for_render (MaxRenderPolls: that many or more)
    rn_status, \* the status its last poll saw
    rn_exit, \* how the last wait_for_render ended: none, COMPLETED, FAILED, interrupt
    br_pc, \* browse_storylinez_folders_menu: off, menu, returned
    br_path, \* current_path
    br_prev, \* current_path before the last step that changed it
    br_last, \* the last action handled: none, parent, enter, create, select, back, error
    br_parent_offered, \* whether the last menu shown had the parent option
    br_menu_path, \* current_path when that menu was shown
    br_ret, \* what the menu returned: [none |-> TRUE] or the path
    pg_pc, \* browse_folders_menu: off, browse, returned
    pg_page, \* current_page
    pg_shown, \* the screen shown last: none, the empty screen, or a page with its number, total_pages and count of folders
    pg_last, \* the choice handled last: none, C, N, P, B, number
    sel_pc, \* browse_user_files_menu with multi_select: off, browse, returned
    sel_files, \* selected_files
    sel_before, \* selected_files before the last choice of a file
    sel_last, \* the choice handled last: [kind: none, file, D, B, error; file_id]
    sel_ret \* what the menu returned: [kind: pending, list, None; value]

settingsVars == <<set_state, set_input, set_result>>
workflowVars == <<wf_pc, wf_done, wf_total_files, wf_continue, wf_destination, wf_confirm, wf_uploads>>
pipelineVars == <<pl_pc, pl_log, pl_web_job, pl_web_result, pl_brand_job, pl_outcome>>
renderVars == <<rn_pc, rn_choice, rn_caller, rn_jobs, rn_waits, rn_polls, rn_status, rn_exit>>
browseVars == <<br_pc, br_path, br_prev, br_last, br_parent_offered, br_menu_path, br_ret>>
pageVars == <<pg_pc, pg_page, pg_shown, pg_last>>
selectVars == <<sel_pc, sel_files, sel_before, sel_last, sel_ret>>
toolVars == <<settingsVars, workflowVars, pipelineVars, renderVars, browseVars, pageVars, selectVars>>
besideSettings == <<batchVars, fileVars, callbackVars, scanVars, workflowVars, pipelineVars, renderVars, browseVars, pageVars, selectVars>>
besideWorkflow == <<batchVars, fileVars, callbackVars, scanVars, settingsVars, pipelineVars, renderVars, browseVars, pageVars, selectVars>>
besidePipeline == <<batchVars, fileVars, callbackVars, scanVars, settingsVars, workflowVars, renderVars, browseVars, pageVars, selectVars>>
besideRender == <<batchVars, fileVars, callbackVars, scanVars, settingsVars, workflowVars, pipelineVars, browseVars, pageVars, selectVars>>
besideBrowse == <<batchVars, fileVars, callbackVars, scanVars, settingsVars, workflowVars, pipelineVars, renderVars, pageVars, selectVars>>
besidePage == <<batchVars, fileVars, callbackVars, scanVars, settingsVars, workflowVars, pipelineVars, renderVars, browseVars, selectVars>>
besideSelect == <<batchVars, fileVars, callbackVars, scanVars, settingsVars, workflowVars, pipelineVars, renderVars, browseVars, pageVars>>

SettingsOff ==
    /\ set_state = "off"
    /\ set_input = [temperature |-> <<>>, max_wait_time |-> <<>>, poll_interval |-> <<>>]
    /\ set_result = [returned |-> FALSE]

WorkflowOff ==
    /\ wf_pc = "off"
    /\ wf_done = <<>>
    /\ wf_total_files = 0
    /\ wf_continue = <<>>
    /\ wf_destination = [none |-> TRUE, path |-> <<>>]
    /\ wf_confirm = <<>>
    /\ wf_uploads = 0

PipelineOff ==
    /\ pl_pc = "off"
    /\ pl_log = <<>>
    /\ pl_web_job = [job_id |-> "None"]
    /\ pl_web_result = [result |-> "None"]
    /\ pl_brand_job = [job_id |-> "None"]
    /\ pl_outcome = [kind |-> "pending"]

RenderOff ==
    /\ rn_pc = "off"
    /\ rn_choice = "none"
    /\ rn_caller = "none"
    /\ rn_jobs = 0
    /\ rn_waits = 0
    /\ rn_polls = 0
    /\ rn_status = "none"
    /\ rn_exit = "none"

BrowseOff ==
    /\ br_pc = "off"
    /\ br_path = <<"/">>
    /\ br_prev = <<"/">>
    /\ br_last = "none"
    /\ br_parent_offered = FALSE
    /\ br_menu_path = <<"/">>
    /\ br_ret = [none |-> TRUE, path |-> <<>>]

PageOff ==
    /\ pg_pc = "off"
    /\ pg_page = 1
    /\ pg_shown = [kind |-> "none", current_page |-> 0, total_pages |-> 0, displayed |-> 0]
    /\ pg_last = "none"

SelectOff ==
    /\ sel_pc = "off"
    /\ sel_files = <<>>
    /\ sel_before = <<>>
    /\ sel_last = [kind |-> "none", file_id |-> ""]
    /\ sel_ret = [kind |-> "pending", value |-> <<>>]

ToolsOff == SettingsOff /\ WorkflowOff /\ PipelineOff /\ RenderOff /\ BrowseOff /\ PageOff /\ SelectOff
ToolsOffButSettings == WorkflowOff /\ PipelineOff /\ RenderOff /\ BrowseOff /\ PageOff /\ SelectOff
ToolsOffButWorkflow == SettingsOff /\ PipelineOff /\ RenderOff /\ BrowseOff /\ PageOff /\ SelectOff
ToolsOffButPipeline == SettingsOff /\ WorkflowOff /\ RenderOff /\ BrowseOff /\ PageOff /\ SelectOff
ToolsOffButRender == SettingsOff /\ WorkflowOff /\ PipelineOff /\ BrowseOff /\ PageOff /\ SelectOff
ToolsOffButBrowse == SettingsOff /\ WorkflowOff /\ PipelineOff /\ RenderOff /\ PageOff /\ SelectOff
ToolsOffButPage == SettingsOff /\ WorkflowOff /\ PipelineOff /\ RenderOff /\ BrowseOff /\ SelectOff
ToolsOffButSelect == SettingsOff /\ WorkflowOff /\ PipelineOff /\ RenderOff /\ BrowseOff /\ PageOff
\* ---- end of that state

vars == <<batchVars, fileVars, callbackVars, scanVars, toolVars>>

Files == 1..total

\* ------------------------------------------------------- progress_callback
\* An event value may hold, under a key, a value of another type than the
\* number or text the callback formats: summary.wrong[key] names that type
\* ("NoneType", "str"), and the key itself is then left out of the record. A
\* value that is no dictionary at all is written [not_a_dict |-> its type].
IsDict(summary) == "not_a_dict" \notin DOMAIN summary
TypeOf(summary, k) ==
    LET w == Get(summary, "wrong", <<>>) IN IF k \in DOMAIN w THEN w[k] ELSE "ok"

\* What Python raises for a value of type t: in arithmetic or a comparison with
\* a number, under a format such as {x:.1f}, in len(x), in x.get / x.upper()
InArithmetic(t) == IF t \in {"NoneType", "str"} THEN "TypeError" ELSE "none"
InFloatFormat(t) ==
    IF t = "str" THEN "ValueError" ELSE IF t = "NoneType" THEN "TypeError" ELSE "none"
InLen(t) == IF t = "NoneType" THEN "TypeError" ELSE "none"
InMethodCall(t) == IF t \in {"NoneType", "str"} THEN "AttributeError" ELSE "none"

\* The first exception of a sequence of evaluations, "none" if none raises
RECURSIVE FirstError(_)
FirstError(es) ==
    IF es = <<>> THEN "none"
    ELSE IF Head(es) # "none" THEN Head(es) ELSE FirstError(Tail(es))

\* int((percent / 100) * width): the filled cells of a progress bar
BarCells(percent, width) == (percent * width) \div 100

\* progress_callback, phase "file_start"
ShowFileStart(summary) ==
    [line |-> "starting",
     current |-> Get(summary, "current_index", 0),
     total |-> Get(summary, "total", 1),
     filename |-> Get(summary, "filename", "unknown"),
     bar |-> BarCells(Get(summary, "overall_progress_percent", 0), 20)]

\* The percentage is read from the key of the batch bar
ShowPollingOverall(summary) ==
    [line |-> "processing",
     percent |-> Get(summary, "overall_progress_percent", 0),
     poll |-> Get(summary, "poll_count", 0),
     elapsed |-> Get(summary, "elapsed_time", 0),
     status |-> IF Get(summary, "analysis_data", <<>>) # <<>>
                THEN Get(summary, "status", "UNKNOWN") ELSE "",
     bar |-> BarCells(Get(summary, "overall_progress_percent", 0), 15)]

\* progress_callback, phase "polling": the percentage, its bar of 15 cells, the
\* poll number and the elapsed seconds, and the status when the event brings
\* analysis data
ShowPolling(summary) ==
    [line |-> "processing",
     percent |-> Get(summary, "file_progress_percent", 0),
     poll |-> Get(summary, "poll_count", 0),
     elapsed |-> Get(summary, "elapsed_time", 0),
     status |-> IF Get(summary, "analysis_data", <<>>) # <<>>
                THEN Get(summary, "status", "UNKNOWN") ELSE "",
     bar |-> BarCells(Get(summary, "file_progress_percent", 0), 15)]

\* progress_callback, phase "file_complete"
ShowFileComplete(summary) ==
    [line |-> IF Get(summary, "success", FALSE) THEN "completed successfully" ELSE "failed",
     filename |-> Get(summary, "filename", "unknown"),
     duration |-> Get(summary, "total_file_duration", 0),
     bar |-> BarCells(Get(summary, "overall_progress_percent", 0), 20)]

\* The error is read from a key the event does not have
ShowFileErrorNoReason(summary) ==
    [line |-> "failed with error",
     filename |-> Get(summary, "filename", "unknown"),
     error |-> Get(summary, "message", <<"Unknown error">>),
     bar |-> BarCells(Get(summary, "overall_progress_percent", 0), 20)]

\* The name of the file is read from the key the older events used, so that
\* no file is named (0)
ShowFileErrorNoName(summary) ==
    [line |-> "failed with error",
     filename |-> Get(summary, "file_name", 0),
     error |-> Get(summary, "error", <<"Unknown error">>),
     bar |-> BarCells(Get(summary, "overall_progress_percent", 0), 20)]

\* progress_callback, phase "file_error" (the texts of the model are shorter
\* than the 100 characters after which the callback cuts an error)
ShowFileError(summary) ==
    [line |-> "failed with error",
     filename |-> Get(summary, "filename", "unknown"),
     error |-> Get(summary, "error", <<"Unknown error">>),
     bar |-> BarCells(Get(summary, "overall_progress_percent", 0), 20)]

\* progress_callback, phase "bulk_complete": done/total, the rate, and the
\* number of failed files when there are any
ShowBulkComplete(summary) ==
    [line |-> "bulk upload complete",
     total |-> Get(summary, "total", 0),
     done |-> Get(summary, "done", 0),
     failed_shown |-> Get(summary, "failed", 0) > 0,
     failed |-> Get(summary, "failed", 0),
     success_rate |-> Get(summary, "success_rate", 0),
     duration |-> Get(summary, "total_duration", 0)]

\* What the body of progress_callback prints for one event, by its phase
FormatEvent(summary) ==
    LET ph == Get(summary, "phase", "unknown") IN
    CASE ph = "file_start" -> ShowFileStart(summary)
      [] ph = "upload_start" ->
           [line |-> "uploading", filename |-> Get(summary, "filename", "unknown")]
      [] ph = "upload_complete" ->
           [line |-> "upload complete",
            filename |-> Get(summary, "filename", "unknown"),
            duration |-> Get(summary, "upload_duration", 0)]
      [] ph = "processing_start" ->
           [line |-> "processing started",
            filename |-> Get(summary, "filename", "unknown"),
            file_id |-> Get(summary, "file_id", "unknown")]
      [] ph = "polling" -> ShowPolling(summary)
      [] ph = "polling_error" ->
           [line |-> "polling error",
            poll |-> Get(summary, "poll_count", 0),
            error |-> Get(summary, "error", <<"Unknown error">>)]
      [] ph = "file_complete" -> ShowFileComplete(summary)
      [] ph = "file_error" -> ShowFileError(summary)
      [] ph = "bulk_complete" -> ShowBulkComplete(summary)
      [] OTHER ->
           LET n == IF IsDict(summary) THEN Get(summary, "total", 1) ELSE 1
               k == IF IsDict(summary) THEN Get(summary, "current_index", 0) ELSE 0 IN
           [line |-> "legacy progress", current |-> k, total |-> n,
            bar |-> IF n > 0 THEN (k * 20) \div n ELSE 0]

InBasename(t) == IF t = "int" THEN "TypeError" ELSE "none"

\* The exception the body of progress_callback runs into for an event, "none"
\* when it prints the event to the end: the evaluations of each branch that
\* can raise, in the order the branch makes them
BodyError(summary) ==
    LET ph == IF IsDict(summary) THEN Get(summary, "phase", "unknown") ELSE "unknown"
        t(k) == TypeOf(summary, k) IN
    CASE ph = "file_start" -> InArithmetic(t("overall_progress_percent"))
      [] ph = "upload_complete" -> InFloatFormat(t("upload_duration"))
      [] ph = "polling" ->
           FirstError(<<InArithmetic(t("file_progress_percent")),
                        InFloatFormat(t("elapsed_time"))>>)
      [] ph = "file_complete" ->
           FirstError(<<InArithmetic(t("overall_progress_percent")),
                        InFloatFormat(t("total_file_duration"))>>)
      [] ph = "file_error" ->
           FirstError(<<InLen(t("error")),
                        InArithmetic(t("overall_progress_percent"))>>)
      [] ph = "bulk_complete" ->
           FirstError(<<InFloatFormat(t("success_rate")),
                        InArithmetic(t("failed")),
                        InFloatFormat(t("total_duration"))>>)
      [] ph \in {"upload_start", "processing_start", "polling_error"} -> "none"
      [] OTHER ->
           IF ~IsDict(summary) THEN "none"
           ELSE FirstError(<<
                  InBasename(t("file_path")),
                  InArithmetic(t("total")),
                  IF t("total") = "ok" /\ Get(summary, "total", 1) > 0
                  THEN InArithmetic(t("current_index")) ELSE "none",
                  IF Get(summary, "upload_status", "uploading") = "success"
                       /\ "result" \in DOMAIN summary
                  THEN InMethodCall(t("analysis_data")) ELSE "none">>)

\* Only a TypeError is caught
ExceptTypeError(e) == e = "TypeError"

\* "except Exception as e": the exceptions of the body that the handler catches
ExceptException(e) == e \in {"TypeError", "ValueError", "AttributeError"}

\* progress_callback lets an exception out
progress_callback_raises(summary) ==
    BodyError(summary) # "none" /\ ~ExceptException(BodyError(summary))

\* progress_callback: the body under try, and the handler that prints the
\* exception and the event instead
progress_callback(summary) ==
    LET e == BodyError(summary) IN
    IF e = "none" THEN FormatEvent(summary)
    ELSE [line |-> "ERROR in progress callback", error |-> e]

\* ------------------------------------------------------------ bulk upload
NoCalls == [link |-> 0, put |-> 0, complete |-> 0, poll |-> 0]
NoEvents == [e \in TaskEvents |-> 0]

\* scan_folder is not called
ScanOff ==
    /\ scan_state = "off"
    /\ scan_root = "dir"
    /\ scan_tree = {}
    /\ scan_types = [given |-> FALSE, types |-> <<>>]
    /\ scan_recursive = FALSE
    /\ scan_result = [raised |-> "nothing"]

\* progress_callback is not called on its own
CallbackOff ==
    /\ cb_state = "off"
    /\ cb_event = [phase |-> "none"]
    /\ cb_shown = [line |-> "nothing"]

\* The three settings, each set or left empty
Configs == [api_key : {"", "key"}, api_secret : {"", "secret"}, org_id : {"", "org"}]

Init ==
    /\ config \in Configs
    /\ total \in 0..MaxTasks
    /\ max_wait_time \in (MaxWaitTime - 1)..MaxWaitTime
    /\ poll_interval \in 1..MaxPollInterval
    /\ pc = "start"
    /\ cur = 1
    /\ phase = [i \in Files |-> "queued"]
    /\ results = <<>>
    /\ bulk_events = 0
    /\ last_event = [phase |-> "none"]
    /\ shown = [line |-> "nothing"]
    /\ ret = [kind |-> "pending", value |-> <<>>]
    /\ report = [printed |-> FALSE]
    /\ file = 0
    /\ file_start = 0
    /\ step = "idle"
    /\ calls = NoCalls
    /\ put_status = 0
    /\ fault = "none"
    /\ observed = "NONE"
    /\ remote_error = ""
    /\ now = 0
    /\ proc_start = 0
    /\ poll_count = 0
    /\ last_pct = 0
    /\ emitted = NoEvents
    /\ CallbackOff
    /\ ScanOff
    /\ ToolsOff

\* run() looks at the key and the secret only
CredentialsMissingButOrg(c) == c.api_key = "" \/ c.api_secret = ""

\* run(): not API_KEY or not API_SECRET or not ORG_ID
CredentialsMissing(c) == c.api_key = "" \/ c.api_secret = "" \/ c.org_id = ""

\* run(), up to the menu: incomplete settings end the script with "Missing API
\* credentials!", a failed get_storage_usage ends it with "Failed to connect";
\* otherwise the upload of the menu is taken and perform_bulk_upload begins
run ==
    /\ pc = "start"
    /\ IF CredentialsMissing(config)
       THEN /\ pc' = "rejected"
            /\ shown' = [line |-> "Missing API credentials!"]
       ELSE \E connected \in BOOLEAN :
              IF connected
              THEN /\ pc' = "bulk"
                   /\ UNCHANGED shown
              ELSE /\ pc' = "rejected"
                   /\ shown' = [line |-> "Failed to connect to Storylinez API!"]
    /\ UNCHANGED <<toolVars, scanVars, callbackVars, config, total, max_wait_time, poll_interval, cur, phase, results,
                   bulk_events, last_event, ret, report, fileVars>>

\* upload_file: org_id = org_id or self.default_org_id; if not org_id
OrgIdMissing(org_id, default_org_id) == org_id = "" /\ default_org_id = ""

\* One event handed to progress_callback
Emit(ev) ==
    /\ last_event' = ev
    /\ shown' = progress_callback(ev)

\* One event of the current file
EmitTask(ev) ==
    /\ Emit(ev)
    /\ emitted' = [emitted EXCEPT ![ev.phase] = @ + 1]

\* Share of the batch that is behind the bulk call once n files are resolved
OverallPercent(n) == IF total > 0 THEN (n * 100) \div total ELSE 0

\* A failed file ends the batch: the files after it are dropped
ResolveFailedAbort(i, how, err) ==
    /\ phase' = [phase EXCEPT ![i] = how]
    /\ results' = Append(results, [file_path |-> i, success |-> FALSE, error |-> err])
    /\ EmitTask([phase |-> "file_error", filename |-> i, error |-> err,
                 overall_progress_percent |-> OverallPercent(i)])
    /\ cur' = total + 1
    /\ step' = "idle"

\* The outcome of a file that did not make it, and its file_error event
ResolveFailed(i, how, err) ==
    /\ phase' = [phase EXCEPT ![i] = how]
    /\ results' = Append(results, [file_path |-> i, success |-> FALSE, error |-> err])
    /\ EmitTask([phase |-> "file_error", filename |-> i, error |-> err,
                 overall_progress_percent |-> OverallPercent(i)])
    /\ cur' = i + 1
    /\ step' = "idle"

\* upload_file raised: the file is failed with the text of the exception
UploadFileRaises(err) == ResolveFailed(cur, "failed", err)

FileStart ==
    /\ pc = "bulk"
    /\ cur \in Files
    /\ file # cur
    /\ file' = cur
    /\ file_start' = Min(file_start + now, MaxBatchClock)
    /\ step' = "idle"
    /\ calls' = NoCalls
    /\ put_status' = 0
    /\ fault' = "none"
    /\ observed' = "NONE"
    /\ remote_error' = ""
    /\ now' = 0
    /\ proc_start' = 0
    /\ poll_count' = 0
    /\ last_pct' = 0
    /\ Emit([phase |-> "file_start", current_index |-> cur, total |-> total,
             filename |-> cur, overall_progress_percent |-> OverallPercent(cur - 1)])
    /\ emitted' = [NoEvents EXCEPT !["file_start"] = 1]
    /\ UNCHANGED <<toolVars, scanVars, callbackVars, config, total, max_wait_time, poll_interval, pc, cur, phase, results,
                   bulk_events, ret, report>>

UploadStart ==
    /\ pc = "bulk"
    /\ cur \in Files
    /\ file = cur
    /\ phase[cur] = "queued"
    /\ phase' = [phase EXCEPT ![cur] = "uploading"]
    /\ step' = "link"
    /\ EmitTask([phase |-> "upload_start", filename |-> cur])
    /\ UNCHANGED <<toolVars, scanVars, callbackVars, config, total, max_wait_time, poll_interval, pc, cur, results, bulk_events,
                   ret, report, file, file_start, calls, put_status, fault, observed,
                   remote_error, now, proc_start, poll_count, last_pct>>

\* upload_file up to its first request: the organization id is checked, then
\* upload/create_link is asked for the pre-signed link
generate_upload_link ==
    /\ pc = "bulk"
    /\ file = cur
    /\ step = "link"
    /\ IF OrgIdMissing(config.org_id, config.org_id)
       THEN /\ fault' = "org"
            /\ UploadFileRaises(OrgIdError)
            /\ UNCHANGED calls
       ELSE /\ calls' = [calls EXCEPT !.link = @ + 1]
            /\ \E answered \in BOOLEAN :
                 IF answered
                 THEN /\ step' = "put"
                      /\ UNCHANGED <<cur, phase, results, last_event, shown, fault,
                                     emitted>>
                 ELSE /\ fault' = "link"
                      /\ UploadFileRaises(LinkRequestError)
    /\ UNCHANGED <<toolVars, scanVars, callbackVars, config, total, max_wait_time, poll_interval, pc, bulk_events, ret, report,
                   file, file_start, put_status, observed, remote_error, now, proc_start,
                   poll_count, last_pct>>

\* The PUT response is not looked at (requests raises on no status by itself)
PutNeverRaises(status_code) == FALSE

\* Only server errors are taken for a failed PUT
PutRaisesOnServerError(status_code) == status_code >= 500

\* upload_file: the check of the PUT response
PutRaises(status_code) == status_code >= 400

\* upload_file, second request: requests.put of the bytes to the pre-signed link.
\* The call sets no timeout: a link that never answers blocks it for good.
put_file_data ==
    /\ pc = "bulk"
    /\ file = cur
    /\ step = "put"
    /\ calls' = [calls EXCEPT !.put = @ + 1]
    /\ now' = now + TransferTicks
    /\ \/ \E status_code \in PutStatuses :
            /\ put_status' = status_code
            /\ IF PutRaises(status_code)
               THEN UploadFileRaises(UploadFailedError(status_code))
               ELSE /\ step' = "complete"
                    /\ UNCHANGED <<cur, phase, results, last_event, shown, emitted>>
            /\ UNCHANGED fault
       \/ /\ fault' = "put"
          /\ UploadFileRaises(PutException)
          /\ UNCHANGED put_status
       \/ /\ step' = "blocked"
          /\ UNCHANGED <<cur, phase, results, last_event, shown, emitted, fault,
                         put_status>>
    /\ UNCHANGED <<toolVars, scanVars, callbackVars, config, total, max_wait_time, poll_interval, pc, bulk_events, ret, report,
                   file, file_start, observed, remote_error, proc_start, poll_count, last_pct>>

\* The completion request sent again when it was not answered
post_upload_completeRetried ==
    /\ pc = "bulk"
    /\ file = cur
    /\ step = "complete"
    /\ \E answered \in BOOLEAN :
         IF answered
         THEN /\ calls' = [calls EXCEPT !.complete = @ + 1]
              /\ step' = "done"
              /\ UNCHANGED <<cur, phase, results, last_event, shown, fault, emitted>>
         ELSE /\ calls' = [calls EXCEPT !.complete = @ + 2]
              /\ fault' = "complete"
              /\ UploadFileRaises(CompleteRequestError)
    /\ UNCHANGED <<toolVars, scanVars, callbackVars, config, total, max_wait_time, poll_interval, pc, bulk_events, ret, report,
                   file, file_start, put_status, observed, remote_error, now, proc_start,
                   poll_count, last_pct>>

\* upload_file, third request: POST upload/complete, which starts the analysis
post_upload_complete ==
    /\ pc = "bulk"
    /\ file = cur
    /\ step = "complete"
    /\ calls' = [calls EXCEPT !.complete = @ + 1]
    /\ \E answered \in BOOLEAN :
         IF answered
         THEN /\ step' = "done"
              /\ UNCHANGED <<cur, phase, results, last_event, shown, fault, emitted>>
         ELSE /\ fault' = "complete"
              /\ UploadFileRaises(CompleteRequestError)
    /\ UNCHANGED <<toolVars, scanVars, callbackVars, config, total, max_wait_time, poll_interval, pc, bulk_events, ret, report,
                   file, file_start, put_status, observed, remote_error, now, proc_start,
                   poll_count, last_pct>>

\* The next file is taken up as soon as the bytes are up, the analysis of this
\* one left to run in the background
UploadCompleteThenNext ==
    /\ pc = "bulk"
    /\ file = cur
    /\ step = "done"
    /\ phase[cur] = "uploading"
    /\ phase' = [phase EXCEPT ![cur] = "uploaded"]
    /\ step' = "idle"
    /\ cur' = cur + 1
    /\ results' = Append(results, [file_path |-> cur, success |-> TRUE, file_id |-> cur])
    /\ EmitTask([phase |-> "upload_complete", filename |-> cur, upload_duration |-> now])
    /\ UNCHANGED <<toolVars, scanVars, callbackVars, config, total, max_wait_time, poll_interval, pc, bulk_events, ret, report,
                   file, file_start, calls, put_status, fault, observed, remote_error, now,
                   proc_start, poll_count, last_pct>>

UploadComplete ==
    /\ pc = "bulk"
    /\ file = cur
    /\ step = "done"
    /\ phase[cur] = "uploading"
    /\ phase' = [phase EXCEPT ![cur] = "uploaded"]
    /\ step' = "idle"
    /\ EmitTask([phase |-> "upload_complete", filename |-> cur, upload_duration |-> now])
    /\ UNCHANGED <<toolVars, scanVars, callbackVars, config, total, max_wait_time, poll_interval, pc, cur, results, bulk_events,
                   ret, report, file, file_start, calls, put_status, fault, observed,
                   remote_error, now, proc_start, poll_count, last_pct>>

ProcessingStart ==
    /\ pc = "bulk"
    /\ file = cur
    /\ cur \in Files
    /\ phase[cur] = "uploaded"
    /\ phase' = [phase EXCEPT ![cur] = "processing"]
    /\ proc_start' = now
    /\ EmitTask([phase |-> "processing_start", filename |-> cur, file_id |-> cur])
    /\ UNCHANGED <<toolVars, scanVars, callbackVars, config, total, max_wait_time, poll_interval, pc, cur, results, bulk_events,
                   ret, report, file, file_start, step, calls, put_status, fault, observed,
                   remote_error, now, poll_count, last_pct>>

\* ---------------------------------------------------------------- polling
\* The time is taken from the start of the batch
ElapsedSinceBatchStart == file_start + now

\* Seconds the file has been in its processing phase
Elapsed == now - proc_start

\* The coarse estimate a polling event carries while the remote is not done
ProgressEstimate(elapsed) == Min(99, (elapsed * 100) \div max_wait_time)

\* The budget runs out one sleep late
BudgetLeftPlusSleep(elapsed) == elapsed <= max_wait_time + poll_interval

\* The file may be polled once more: its elapsed time has not passed the budget
BudgetLeft(elapsed) == elapsed <= max_wait_time

\* Any end of the analysis is taken for a good one
AnyEndIsCompleted(status) == status \in {"COMPLETED", "FAILED"}

\* analysis_data.status of a file whose analysis ended
IsCompleted(status) == status = "COMPLETED"
IsFailed(status) == status = "FAILED"

\* The polling event of the current file
PollingEvent(status, percent, elapsed, analysis_data) ==
    [phase |-> "polling", filename |-> cur, status |-> status,
     poll_count |-> poll_count + 1, file_progress_percent |-> percent,
     elapsed_time |-> elapsed, analysis_data |-> analysis_data]

\* One turn of the poll loop: the budget is checked, get_file_analysis is called,
\* the answer is reported, and unless it is terminal the loop sleeps poll_interval
Poll ==
    /\ pc = "bulk"
    /\ file = cur
    /\ cur \in Files
    /\ phase[cur] \in {"processing", "polling"}
    /\ observed = "NONE"
    /\ BudgetLeft(Elapsed)
    /\ poll_count' = poll_count + 1
    /\ calls' = [calls EXCEPT !.poll = @ + 1]
    /\ phase' = [phase EXCEPT ![cur] = "polling"]
    /\ \E took \in PollLatencies :
         LET elapsed == Elapsed + took IN
         \/ \E status \in NonTerminalStatuses :
              /\ last_pct' = ProgressEstimate(elapsed)
              /\ EmitTask(PollingEvent(status, ProgressEstimate(elapsed), elapsed,
                                       [status |-> status]))
              /\ now' = now + took + poll_interval
              /\ UNCHANGED <<observed, remote_error>>
         \/ /\ last_pct' = 100
            /\ EmitTask(PollingEvent("COMPLETED", 100, elapsed,
                                     [status |-> "COMPLETED"]))
            /\ observed' = "COMPLETED"
            /\ now' = now + took
            /\ UNCHANGED remote_error
         \/ \E msg \in RemoteErrors :
              /\ last_pct' = 100
              /\ EmitTask(PollingEvent("FAILED", 100, elapsed,
                                       [status |-> "FAILED", error |-> msg]))
              /\ observed' = "FAILED"
              /\ remote_error' = msg
              /\ now' = now + took
         \/ /\ emitted["polling_error"] < MaxPollErrors
            /\ EmitTask([phase |-> "polling_error", filename |-> cur,
                         poll_count |-> poll_count + 1, error |-> PollRequestError])
            /\ now' = now + took + poll_interval
            /\ UNCHANGED <<last_pct, observed, remote_error>>
    /\ UNCHANGED <<toolVars, scanVars, callbackVars, config, total, max_wait_time, poll_interval, pc, cur, results, bulk_events,
                   ret, report, file, file_start, step, put_status, fault, proc_start>>

\* The budget of the file is used up and no poll saw a terminal status
TimedOut ==
    /\ pc = "bulk"
    /\ file = cur
    /\ cur \in Files
    /\ phase[cur] \in {"processing", "polling"}
    /\ observed = "NONE"
    /\ ~BudgetLeft(Elapsed)
    /\ ResolveFailed(cur, "timed_out", TimeoutErrorText)
    /\ UNCHANGED <<toolVars, scanVars, callbackVars, config, total, max_wait_time, poll_interval, pc, bulk_events, ret, report,
                   file, file_start, calls, put_status, fault, observed, remote_error, now,
                   proc_start, poll_count, last_pct>>

\* A poll saw COMPLETED
FileComplete ==
    /\ pc = "bulk"
    /\ file = cur
    /\ cur \in Files
    /\ phase[cur] = "polling"
    /\ IsCompleted(observed)
    /\ phase' = [phase EXCEPT ![cur] = "completed"]
    /\ results' = Append(results, [file_path |-> cur, success |-> TRUE, file_id |-> cur])
    /\ EmitTask([phase |-> "file_complete", filename |-> cur, success |-> TRUE,
                 total_file_duration |-> now,
                 overall_progress_percent |-> OverallPercent(cur)])
    /\ cur' = cur + 1
    /\ UNCHANGED <<toolVars, scanVars, callbackVars, config, total, max_wait_time, poll_interval, pc, bulk_events, ret, report,
                   file, file_start, step, calls, put_status, fault, observed, remote_error,
                   now, proc_start, poll_count, last_pct>>

\* A poll saw FAILED
FileFailed ==
    /\ pc = "bulk"
    /\ file = cur
    /\ cur \in Files
    /\ phase[cur] = "polling"
    /\ IsFailed(observed)
    /\ ResolveFailed(cur, "failed", RemoteFailureText(remote_error))
    /\ UNCHANGED <<toolVars, scanVars, callbackVars, config, total, max_wait_time, poll_interval, pc, bulk_events, ret, report,
                   file, file_start, calls, put_status, fault, observed, remote_error, now,
                   proc_start, poll_count, last_pct>>

\* ------------------------------------------------------- end of the batch
\* sum(1 for r in results if r.get('success', False))
Successful(rs) == Cardinality({k \in DOMAIN rs : Get(rs[k], "success", FALSE)})

\* The subtraction is forgotten
FailedCountsAll(rs) == Len(rs)

\* len(results) - successful
Failed(rs) == Len(rs) - Successful(rs)

SuccessRate(done, n) == IF n > 0 THEN (done * 100) \div n ELSE 0

\* The counters of the bulk call: files that succeeded, files that did not
DoneCount(rs) == Cardinality({k \in DOMAIN rs : rs[k].success})
FailedCount(rs) == Cardinality({k \in DOMAIN rs : ~rs[k].success})

\* Every file is resolved: the one bulk_complete event, then the bulk call returns
BulkComplete ==
    /\ pc = "bulk"
    /\ cur = total + 1
    /\ pc' = "summary"
    /\ bulk_events' = bulk_events + 1
    /\ Emit([phase |-> "bulk_complete", total |-> total,
             done |-> DoneCount(results), failed |-> FailedCount(results),
             success_rate |-> SuccessRate(DoneCount(results), total)])
    /\ UNCHANGED <<toolVars, scanVars, callbackVars, config, total, max_wait_time, poll_interval, cur, phase, results, ret,
                   report, fileVars>>

\* The "Failed Files" lines of the summary: [file, error] of every result
\* without success, in result order
RECURSIVE FailedFiles(_)
FailedFiles(rs) ==
    IF rs = <<>> THEN <<>>
    ELSE LET r == Head(rs) IN
         (IF ~Get(r, "success", FALSE)
          THEN <<[file_name |-> r.file_path,
                  error |-> Get(r, "error", <<"Unknown error">>)]>>
          ELSE <<>>) \o FailedFiles(Tail(rs))

\* A return that leaves the failed files out
ReturnedSuccessfulOnly(rs) == SelectSeq(rs, LAMBDA r : Get(r, "success", FALSE))

\* "return results": the list of the bulk call, as it came
ReturnedResults(rs) == rs

\* perform_bulk_upload after the bulk call returned: the summary and the return
perform_bulk_upload_return ==
    /\ pc = "summary"
    /\ pc' = "returned"
    /\ report' = [printed |-> TRUE,
                  successful |-> Successful(results),
                  failed |-> Failed(results),
                  failed_files |-> IF Failed(results) > 0 THEN FailedFiles(results)
                                   ELSE <<>>]
    /\ ret' = [kind |-> "results", value |-> ReturnedResults(results)]
    /\ UNCHANGED <<toolVars, scanVars, callbackVars, config, total, max_wait_time, poll_interval, cur, phase, results,
                   bulk_events, last_event, shown, fileVars>>

\* The handler gives None back but the loop over the files is not left
KeyboardInterruptKeepsGoing ==
    /\ pc = "bulk"
    /\ ret.kind = "pending"
    /\ ret' = [kind |-> "None", value |-> <<>>]
    /\ UNCHANGED <<toolVars, scanVars, callbackVars, config, total, max_wait_time, poll_interval, pc, cur, phase, results,
                   bulk_events, last_event, shown, report, fileVars>>

\* Ctrl+C while the bulk call runs: perform_bulk_upload returns None
KeyboardInterrupt ==
    /\ pc = "bulk"
    /\ pc' = "cancelled"
    /\ ret' = [kind |-> "None", value |-> <<>>]
    /\ UNCHANGED <<toolVars, scanVars, callbackVars, config, total, max_wait_time, poll_interval, cur, phase, results,
                   bulk_events, last_event, shown, report, fileVars>>

Next ==
    \/ run
    \/ FileStart
    \/ UploadStart
    \/ generate_upload_link
    \/ put_file_data
    \/ post_upload_complete
    \/ UploadComplete
    \/ ProcessingStart
    \/ Poll
    \/ TimedOut
    \/ FileComplete
    \/ FileFailed
    \/ BulkComplete
    \/ perform_bulk_upload_return
    \/ KeyboardInterrupt

Spec == Init /\ [][Next]_vars

\* The bulk call left alone: no Ctrl+C. The script is one thread of blocking
\* calls, so whatever step is possible is taken.
Run ==
    \/ run
    \/ FileStart
    \/ UploadStart
    \/ generate_upload_link
    \/ put_file_data
    \/ post_upload_complete
    \/ UploadComplete
    \/ ProcessingStart
    \/ Poll
    \/ TimedOut
    \/ FileComplete
    \/ FileFailed
    \/ BulkComplete
    \/ perform_bulk_upload_return

\* the runs checked for progress: the longest wait a file is given, every
\* number of files and every interval between two polls
LiveInit == Init /\ max_wait_time = MaxWaitTime

LiveSpec == LiveInit /\ [][Run]_vars /\ WF_vars(Run)

\* ------------------------------------------- progress_callback on its own
\* The event values progress_callback is tried on: every phase, with each key
\* it formats left out, well typed, or of a type it cannot format; an unknown
\* phase and no phase at all (the older flat events); values that are no
\* dictionary
NoWrong == [k \in {} |-> "ok"]
WithKey(S, k, goods, bads) ==
    UNION {{e} \cup {(k :> g) @@ e : g \in goods}
               \cup {[e EXCEPT !.wrong = (k :> b) @@ @] : b \in bads} : e \in S}
OfPhase(ph) == {[phase |-> ph, wrong |-> NoWrong]}
NotNumbers == {"NoneType", "str"}

PhaseEvents ==
    WithKey(WithKey(OfPhase("file_start"), "overall_progress_percent", {50}, NotNumbers),
            "total", {2}, {})
    \cup WithKey(OfPhase("upload_start"), "filename", {1}, {})
    \cup WithKey(OfPhase("upload_complete"), "upload_duration", {3}, NotNumbers)
    \cup WithKey(OfPhase("processing_start"), "file_id", {1}, {})
    \cup WithKey(WithKey(OfPhase("polling"), "file_progress_percent", {40}, NotNumbers),
                 "elapsed_time", {2}, NotNumbers)
    \cup WithKey(OfPhase("polling_error"), "poll_count", {1}, {})
    \cup WithKey(WithKey(WithKey(OfPhase("file_complete"),
                                 "overall_progress_percent", {100}, NotNumbers),
                         "total_file_duration", {4}, NotNumbers),
                 "success", {TRUE, FALSE}, {})
    \cup WithKey(WithKey(OfPhase("file_error"), "error", {<<"boom">>}, {"NoneType"}),
                 "overall_progress_percent", {50}, NotNumbers)
    \cup WithKey(WithKey(WithKey(OfPhase("bulk_complete"),
                                 "success_rate", {50}, NotNumbers),
                         "failed", {0, 1}, NotNumbers),
                 "total_duration", {9}, NotNumbers)

LegacyEvents ==
    WithKey(WithKey(WithKey(WithKey(WithKey(WithKey(
        {[phase |-> "mystery", wrong |-> NoWrong], [wrong |-> NoWrong]},
        "total", {0, 2}, NotNumbers),
        "current_index", {1}, NotNumbers),
        "file_path", {"a.mp4"}, {"int"}),
        "upload_status", {"success", "failed"}, {}),
        "result", {[analysis_data |-> [status |-> "COMPLETED"]]}, {}),
        "analysis_data", {}, NotNumbers)

NotDictionaries == {[not_a_dict |-> t] : t \in {"NoneType", "str", "list"}}

CallbackEvents == PhaseEvents \cup LegacyEvents \cup NotDictionaries

\* No bulk upload is going on
BatchOff ==
    /\ config = [api_key |-> "key", api_secret |-> "secret", org_id |-> "org"]
    /\ total = 0
    /\ max_wait_time = MaxWaitTime
    /\ poll_interval = 1
    /\ pc = "off"
    /\ cur = 1
    /\ phase = <<>>
    /\ results = <<>>
    /\ bulk_events = 0
    /\ last_event = [phase |-> "none"]
    /\ shown = [line |-> "nothing"]
    /\ ret = [kind |-> "pending", value |-> <<>>]
    /\ report = [printed |-> FALSE]
    /\ file = 0
    /\ file_start = 0
    /\ step = "idle"
    /\ calls = NoCalls
    /\ put_status = 0
    /\ fault = "none"
    /\ observed = "NONE"
    /\ remote_error = ""
    /\ now = 0
    /\ proc_start = 0
    /\ poll_count = 0
    /\ last_pct = 0
    /\ emitted = NoEvents

CallbackInit ==
    /\ BatchOff
    /\ ScanOff
    /\ ToolsOff
    /\ cb_state = "ready"
    /\ cb_event \in CallbackEvents
    /\ cb_shown = [line |-> "nothing"]

\* progress_callback(summary) runs: it prints and returns, or lets an
\* exception out
callback_return ==
    /\ cb_state = "ready"
    /\ IF progress_callback_raises(cb_event)
       THEN /\ cb_state' = "raised"
            /\ UNCHANGED cb_shown
       ELSE /\ cb_state' = "returned"
            /\ cb_shown' = progress_callback(cb_event)
    /\ UNCHANGED <<cb_event, batchVars, fileVars, scanVars, toolVars>>

\* The next call, with another value
callback_call ==
    /\ cb_state = "returned"
    /\ cb_state' = "ready"
    /\ cb_event' \in CallbackEvents
    /\ cb_shown' = [line |-> "nothing"]
    /\ UNCHANGED <<batchVars, fileVars, scanVars, toolVars>>

CallbackNext == callback_return \/ callback_call

CallbackSpec == CallbackInit /\ [][CallbackNext]_vars

\* -------------------------------------------------------------- scan_folder
\* File names are sequences of characters, so that the extension, its lower
\* case and a leading dot are computed from the name
UpperCase == <<"A", "B", "C", "D", "E", "F", "G", "H", "I", "J", "K", "L", "M",
               "N", "O", "P", "Q", "R", "S", "T", "U", "V", "W", "X", "Y", "Z">>
LowerCase == <<"a", "b", "c", "d", "e", "f", "g", "h", "i", "j", "k", "l", "m",
               "n", "o", "p", "q", "r", "s", "t", "u", "v", "w", "x", "y", "z">>

\* The extension is compared as written
LowerUnchanged(s) == s

\* str.lower()
Lower(s) ==
    [i \in 1..Len(s) |->
        IF \E j \in 1..26 : UpperCase[j] = s[i]
        THEN LowerCase[CHOOSE j \in 1..26 : UpperCase[j] = s[i]]
        ELSE s[i]]

\* os.path.splitext(name)[1]: from the last dot on, unless the name has no dot
\* or nothing but dots before it
splitext(name) ==
    LET dots == {i \in 1..Len(name) : name[i] = "."} IN
    IF dots = {} THEN <<>>
    ELSE LET last == CHOOSE i \in dots : \A j \in dots : j <= i IN
         IF \A j \in 1..(last - 1) : name[j] = "." THEN <<>>
         ELSE SubSeq(name, last, Len(name))

\* x in a list
In(x, list) == \E i \in 1..Len(list) : list[i] = x

\* SUPPORTED_EXTENSIONS, and the fixed order of its keys
SUPPORTED_EXTENSIONS ==
    [VIDEO |-> << <<".", "m", "p", "4">> >>,
     AUDIO |-> << <<".", "m", "p", "3">>, <<".", "w", "a", "v">> >>,
     IMAGE |-> << <<".", "j", "p", "g">>, <<".", "j", "p", "e", "g">>,
                  <<".", "p", "n", "g">> >>]
Categories == <<"VIDEO", "AUDIO", "IMAGE">>

ALL_EXTENSIONS ==
    SUPPORTED_EXTENSIONS.VIDEO \o SUPPORTED_EXTENSIONS.AUDIO \o SUPPORTED_EXTENSIONS.IMAGE

\* get_file_type(filename)
get_file_type(filename) ==
    LET ext == Lower(splitext(filename)) IN
    IF \E i \in 1..Len(Categories) : In(ext, SUPPORTED_EXTENSIONS[Categories[i]])
    THEN Categories[CHOOSE i \in 1..Len(Categories) :
                      /\ In(ext, SUPPORTED_EXTENSIONS[Categories[i]])
                      /\ \A j \in 1..(i - 1) :
                            ~In(ext, SUPPORTED_EXTENSIONS[Categories[j]])]
    ELSE "UNKNOWN"

\* scan_folder: the extensions to look for
RECURSIVE ExtensionsOf(_)
ExtensionsOf(types) ==
    IF types = <<>> THEN <<>>
    ELSE (IF Head(types) \in DOMAIN SUPPORTED_EXTENSIONS
          THEN SUPPORTED_EXTENSIONS[Head(types)] ELSE <<>>) \o ExtensionsOf(Tail(types))

TargetExtensions(file_types) ==
    IF ~file_types.given THEN ALL_EXTENSIONS ELSE ExtensionsOf(file_types.types)

\* With no filter a file of any extension is taken
WantedOrNoFilter(ext, file_types) ==
    ~file_types.given \/ In(ext, TargetExtensions(file_types))

\* scan_folder: ext in target_extensions
Wanted(ext, file_types) == In(ext, TargetExtensions(file_types))

\* The entries a folder may hold: [dir: the directories from the folder down
\* to the entry, name, kind: file or dir, size in bytes]
Entry(dir, name, kind, size) == [dir |-> dir, name |-> name, kind |-> kind, size |-> size]
SubDir == <<"s", "u", "b">>
DotDir == <<".", "c", "a", "c", "h", "e">>
PoolOrder ==
    << Entry(<<>>, <<"v", "i", "d", "e", "o", ".", "M", "P", "4">>, "file", 7),
       Entry(<<>>, <<"c", "l", "i", "p", ".", "m", "o", "v">>, "file", 5),
       Entry(<<>>, <<"a", ".", "m", "p", "4">>, "file", 10485760),
       Entry(<<>>, <<"b", ".", "w", "a", "v">>, "file", 2097152),
       Entry(<<>>, <<"c", ".", "t", "x", "t">>, "file", 1024),
       Entry(<<SubDir>>, <<"d", ".", "p", "n", "g">>, "file", 3),
       Entry(<<>>, <<".", "h", ".", "m", "p", "4">>, "file", 11),
       Entry(<<DotDir>>, <<"f", ".", "j", "p", "g">>, "file", 13),
       Entry(<<>>, <<"d", "i", "r", ".", "m", "p", "4">>, "dir", 4096) >>
Pool == {PoolOrder[i] : i \in 1..Len(PoolOrder)}

\* glob: a name with a leading dot is matched by neither * nor **
IsHidden(name) == name # <<>> /\ name[1] = "."

\* The recursive pattern is used whatever the flag
globAlwaysRecursive(tree, recursive) ==
    SelectSeq(PoolOrder, LAMBDA e :
        /\ e \in tree
        /\ ~IsHidden(e.name)
        /\ \A i \in 1..Len(e.dir) : ~IsHidden(e.dir[i]))

\* glob.glob(folder/**/*, recursive=True) or glob.glob(folder/*): the entries
\* of the subtree, or the immediate children, without the hidden ones; the
\* order is that of the platform
glob(tree, recursive) ==
    SelectSeq(PoolOrder, LAMBDA e :
        /\ e \in tree
        /\ ~IsHidden(e.name)
        /\ IF recursive THEN \A i \in 1..Len(e.dir) : ~IsHidden(e.dir[i])
           ELSE e.dir = <<>>)

isfile(e) == e.kind = "file"

NoFiles == [VIDEO |-> <<>>, AUDIO |-> <<>>, IMAGE |-> <<>>, UNKNOWN |-> <<>>]

\* The size of every file gone through is added, taken or not
RECURSIVE ScanFilesSizeOfAll(_, _, _, _)
ScanFilesSizeOfAll(files, file_types, found_files, total_size) ==
    IF files = <<>> THEN [files |-> found_files, total_size |-> total_size]
    ELSE LET f == Head(files)
             ext == Lower(splitext(f.name)) IN
         IF isfile(f) /\ Wanted(ext, file_types)
         THEN LET file_type == get_file_type(f.name)
                  file_info == [name |-> f.name, size |-> f.size, extension |-> ext,
                                relative_path |-> Append(f.dir, f.name)] IN
              ScanFilesSizeOfAll(Tail(files), file_types,
                        [found_files EXCEPT ![file_type] = Append(@, file_info)],
                        total_size + f.size)
         ELSE ScanFilesSizeOfAll(Tail(files), file_types, found_files,
                                 total_size + f.size)

\* scan_folder, the loop over the paths glob gave: a file with a wanted
\* extension goes to the list of its type and its size to the total
\* (size_formatted, a text of the size for the display, is not kept)
RECURSIVE ScanFiles(_, _, _, _)
ScanFiles(files, file_types, found_files, total_size) ==
    IF files = <<>> THEN [files |-> found_files, total_size |-> total_size]
    ELSE LET f == Head(files)
             ext == Lower(splitext(f.name)) IN
         IF isfile(f) /\ Wanted(ext, file_types)
         THEN LET file_type == get_file_type(f.name)
                  file_info == [name |-> f.name, size |-> f.size, extension |-> ext,
                                relative_path |-> Append(f.dir, f.name)] IN
              ScanFiles(Tail(files), file_types,
                        [found_files EXCEPT ![file_type] = Append(@, file_info)],
                        total_size + f.size)
         ELSE ScanFiles(Tail(files), file_types, found_files, total_size)

\* scan_folder(folder_path, file_types, recursive)
\* The same without the two checks of folder_path: glob finds nothing below a
\* path that is no directory
scan_folderUnchecked(root, tree, file_types, recursive) ==
    LET r == ScanFiles(glob(tree, recursive), file_types, NoFiles, 0) IN
    [raised |-> "none",
     globs |-> 1,
     files |-> r.files,
     total_files |-> Len(r.files.VIDEO) + Len(r.files.AUDIO)
                       + Len(r.files.IMAGE) + Len(r.files.UNKNOWN),
     total_size |-> r.total_size]

\* scan_folder(folder_path, file_types, recursive); globs: the calls of glob.glob
scan_folder(root, tree, file_types, recursive) ==
    IF root = "missing" THEN [raised |-> "FileNotFoundError", globs |-> 0]
    ELSE IF root # "dir" THEN [raised |-> "ValueError", globs |-> 0]
    ELSE LET r == ScanFiles(glob(tree, recursive), file_types, NoFiles, 0) IN
         [raised |-> "none",
          globs |-> 1,
          files |-> r.files,
          total_files |-> Len(r.files.VIDEO) + Len(r.files.AUDIO)
                            + Len(r.files.IMAGE) + Len(r.files.UNKNOWN),
          total_size |-> r.total_size]

\* file_types: None, the lists of filter_content_menu, and lists a caller may
\* pass besides: empty, with a type twice, with names that are no key
FileTypeChoices ==
    {[given |-> FALSE, types |-> <<>>]}
    \cup {[given |-> TRUE, types |-> t] :
            t \in {<<"VIDEO">>, <<"AUDIO">>, <<"IMAGE">>, <<"VIDEO", "AUDIO">>,
                   <<"VIDEO", "IMAGE">>, <<"AUDIO", "IMAGE">>,
                   <<"VIDEO", "AUDIO", "IMAGE">>, <<>>, <<"VIDEO", "VIDEO">>,
                   <<"UNKNOWN">>, <<"DOCUMENT", "AUDIO">>}}

ScanInit ==
    /\ BatchOff
    /\ CallbackOff
    /\ ToolsOff
    /\ scan_state = "ready"
    /\ scan_root \in {"dir", "file", "missing"}
    /\ scan_tree \in SUBSET Pool
    /\ scan_root # "dir" => scan_tree = {}
    /\ scan_types \in FileTypeChoices
    /\ scan_recursive \in BOOLEAN
    /\ scan_result = [raised |-> "nothing"]

\* One call of scan_folder
scan ==
    /\ scan_state = "ready"
    /\ scan_state' = "done"
    /\ scan_result' = scan_folder(scan_root, scan_tree, scan_types, scan_recursive)
    /\ UNCHANGED <<scan_root, scan_tree, scan_types, scan_recursive, batchVars,
                   fileVars, callbackVars, toolVars>>

ScanNext == scan

ScanSpec == ScanInit /\ [][ScanNext]_vars

\* ------------------------------------------------------------------ claims
Resolved(i) == phase[i] \in TerminalPhases

\* The latest file has its outcome
FileResolved == file \in Files /\ cur = file + 1

\* C1: the bulk call ends with exactly one outcome per input file, the i-th
\* outcome being that of the i-th file, whatever the files' results were, and
\* perform_bulk_upload returns that list
C1_OneOutcomePerTask ==
    /\ Len(results) = cur - 1
    /\ \A k \in 1..Len(results) : results[k].file_path = k
    /\ pc \in {"summary", "returned"} => Len(results) = total
    /\ pc = "returned" =>
         /\ ret.kind = "results"
         /\ Len(ret.value) = total
         /\ \A i \in Files : ret.value[i].file_path = i

C1_Witness ==
    /\ pc = "returned"
    /\ total >= 2
    /\ ~ret.value[1].success
    /\ ret.value[2].success

\* C2: the files are worked on strictly one after another: an event or a remote
\* request of a file happens only when every file before it is resolved
\* (completed, failed or timed out), and no file after it has left "queued"
C2_Sequential ==
    /\ [](\A i \in Files : /\ i < file => Resolved(i)
                           /\ i > file => phase[i] = "queued")
    /\ [][(emitted' # emitted \/ calls' # calls \/ file' # file)
            => \A i \in Files : i < file' => Resolved(i)]_vars

C2_Witness ==
    /\ file = 2
    /\ phase[1] = "timed_out"
    /\ phase[2] = "polling"
    /\ calls.poll >= 2

\* What the answers of the remote side to the latest file alone make of it
OwnOutcome ==
    LET failure(err) == [file_path |-> file, success |-> FALSE, error |-> err] IN
    IF fault = "org" THEN failure(<<"ValueError", "Organization ID is required">>)
    ELSE IF fault = "link" THEN failure(<<"upload/create_link request failed">>)
    ELSE IF fault = "put" THEN failure(<<"PUT raised">>)
    ELSE IF put_status >= 400
         THEN failure(<<"File upload failed with status", ToString(put_status)>>)
    ELSE IF fault = "complete" THEN failure(<<"upload/complete request failed">>)
    ELSE IF observed = "COMPLETED"
         THEN [file_path |-> file, success |-> TRUE, file_id |-> file]
    ELSE IF observed = "FAILED" THEN failure(<<remote_error>>)
    ELSE failure(<<"TimeoutError", "file may still complete in background">>)

\* C3: a file that ends failed or timed out does not end the batch: the bulk
\* call goes on to the next file, which is then started, and the outcome of a
\* file is made of the remote answers to that file alone
C3_FailureDoesNotAbort ==
    /\ [][\A i \in Files :
            (~Resolved(i) /\ phase'[i] \in {"failed", "timed_out"} /\ i < total)
                => (pc' = "bulk" /\ cur' = i + 1)]_vars
    /\ (FileResolved /\ file < total /\ phase[file] \in {"failed", "timed_out"})
         ~> (file = cur)
    /\ [](FileResolved => results[file] = OwnOutcome)

C3_Witness ==
    /\ total >= 2
    /\ phase[1] = "timed_out"
    /\ file = 2
    /\ phase[2] = "completed"

Rank(ph) ==
    CASE ph = "queued" -> 0
      [] ph = "uploading" -> 1
      [] ph = "uploaded" -> 2
      [] ph = "processing" -> 3
      [] ph = "polling" -> 4
      [] OTHER -> 5

PhaseSteps ==
    {<<"queued", "uploading">>, <<"uploading", "uploaded">>, <<"uploading", "failed">>,
     <<"uploaded", "processing">>, <<"processing", "polling">>}
    \cup ({"processing", "polling"} \X TerminalPhases)

\* C4: the phase of a file only moves forward along queued, uploading, uploaded,
\* processing, polling, one of completed / failed / timed_out; a resolved file
\* keeps its phase; and processing starts only after the transfer was
\* acknowledged: the link, the PUT (answered below 400) and upload/complete
\* went through once each and upload_complete was reported
C4_PhasesForward ==
    /\ [][\A i \in Files :
            /\ Rank(phase'[i]) >= Rank(phase[i])
            /\ Resolved(i) => phase'[i] = phase[i]
            /\ phase'[i] # phase[i] => <<phase[i], phase'[i]>> \in PhaseSteps]_vars
    /\ []((file \in Files /\ emitted["processing_start"] > 0) =>
            /\ calls.link = 1 /\ calls.put = 1 /\ calls.complete = 1
            /\ put_status \in 1..399
            /\ fault = "none"
            /\ emitted["upload_complete"] = 1
            /\ emitted["processing_start"] = 1)
    /\ []((file \in Files /\ phase[file] \in {"processing", "polling", "completed",
                                                "timed_out"})
            => emitted["processing_start"] = 1)

C4_Witness ==
    /\ file \in Files
    /\ phase[file] = "completed"
    /\ emitted["polling"] >= 2
    /\ put_status = 200

\* C5: a file whose transfer fails (a request of upload_file is not answered,
\* or the PUT is answered with a status of 400 or more) goes straight to failed:
\* its outcome has no success and the text of the transfer error, no request of
\* upload_file was sent twice, and the file is never polled
C5_TransferFailure ==
    (file \in Files /\ (fault # "none" \/ put_status >= 400)) =>
        /\ phase[file] = "failed"
        /\ FileResolved
        /\ results[file] = OwnOutcome
        /\ ~results[file].success
        /\ calls.link = 1 /\ calls.put <= 1 /\ calls.complete <= 1
        /\ (fault = "put" \/ put_status >= 400) => calls.put = 1
        /\ calls.poll = 0
        /\ emitted["polling"] = 0 /\ emitted["polling_error"] = 0
        /\ emitted["processing_start"] = 0
        /\ emitted["file_error"] = 1

C5_Witness ==
    /\ file \in Files
    /\ put_status = 403
    /\ phase[file] = "failed"
    /\ results[file].error = <<"File upload failed with status", "403">>

TimeoutText == <<"TimeoutError", "file may still complete in background">>

\* C6: a file that is still not terminal when its elapsed time has passed
\* max_wait_time ends timed_out, without success and with the timeout error; a
\* file the remote reported FAILED ends failed with the remote's text; the two
\* errors differ, in the outcome and in what progress_callback prints, so a
\* timeout is never recorded as a remote failure nor the other way round
C6_TimeoutDistinct ==
    /\ [](\A i \in 1..Len(results) :
            phase[i] = "timed_out" <=> Get(results[i], "error", <<>>) = TimeoutText)
    /\ [](FileResolved =>
            /\ phase[file] = "timed_out" =>
                 /\ observed = "NONE"
                 /\ now - proc_start > max_wait_time
                 /\ emitted["processing_start"] = 1
                 /\ emitted["file_error"] = 1
                 /\ ~results[file].success
            /\ observed = "FAILED" =>
                 /\ phase[file] = "failed"
                 /\ emitted["file_error"] = 1
                 /\ results[file].error = <<remote_error>>
                 /\ results[file].error # TimeoutText)
    /\ []((FileResolved /\ last_event.phase = "file_error") =>
            /\ last_event.error = results[file].error
            /\ shown.line = "failed with error"
            /\ shown.error = results[file].error
            /\ shown.error = TimeoutText <=> phase[file] = "timed_out")
    /\ [][(/\ pc = "bulk" /\ file = cur /\ cur \in Files
           /\ phase[cur] \in {"processing", "polling"}
           /\ observed = "NONE"
           /\ now - proc_start > max_wait_time)
            => (phase'[cur] = "timed_out" \/ pc' = "cancelled")]_vars

C6_Witness ==
    /\ total >= 2
    /\ file = 2
    /\ phase[1] = "failed" /\ results[1].error \in {<<m>> : m \in RemoteErrors}
    /\ phase[2] = "timed_out"
    /\ shown.line = "failed with error" /\ shown.error = TimeoutText

\* C7: the outcome of a file has success exactly when a poll of it saw
\* COMPLETED, and the file ends failed with the remote's error text exactly
\* when a poll saw FAILED (a poll is only made within the budget, and the first
\* terminal answer ends the polling)
C7_SuccessIffCompleted ==
    /\ observed \in {"NONE", "COMPLETED", "FAILED"}
    /\ observed = "FAILED" <=> remote_error \in RemoteErrors
    /\ FileResolved =>
         /\ results[file].success <=> observed = "COMPLETED"
         /\ results[file].success <=> phase[file] = "completed"
         /\ (phase[file] = "failed" /\ Get(results[file], "error", <<>>) = <<remote_error>>)
               <=> observed = "FAILED"
    /\ (file = cur /\ observed # "NONE") => calls.poll = poll_count

C7_Witness ==
    /\ total >= 2
    /\ file = 2
    /\ results[1].success
    /\ FileResolved
    /\ observed = "FAILED"
    /\ results[2].error = <<"analysis crashed">>
    /\ emitted["polling"] >= 2

C9_BulkComplete ==
    /\ [](pc \in {"start", "rejected", "bulk", "cancelled"} => bulk_events = 0)
    /\ [](pc \in {"summary", "returned"} =>
            /\ bulk_events = 1
            /\ \A i \in Files : Resolved(i)
            /\ last_event.phase = "bulk_complete"
            /\ last_event.total = total
            /\ last_event.done + last_event.failed = last_event.total
            /\ last_event.done = Cardinality({i \in Files : phase[i] = "completed"})
            /\ last_event.failed =
                 Cardinality({i \in Files : phase[i] \in {"failed", "timed_out"}})
            /\ shown.line = "bulk upload complete"
            /\ shown.done = last_event.done
            /\ shown.total = total
            /\ shown.failed = last_event.failed
            /\ shown.failed_shown <=> last_event.failed > 0)
    /\ [](pc = "returned" =>
            /\ report.successful = last_event.done
            /\ report.failed = last_event.failed
            /\ report.successful + report.failed = total)
    /\ [][bulk_events >= 1 => (last_event' = last_event /\ bulk_events' = 1)]_vars

C9_Witness ==
    /\ pc = "returned"
    /\ total >= 2
    /\ last_event.done = 1
    /\ last_event.failed = total - 1
    /\ phase[1] = "timed_out"

C11_OwnBudget ==
    /\ [][(file \in Files /\ file' = file /\ phase[file] = "uploaded"
                /\ phase'[file] = "processing")
            => (proc_start' = now /\ now' = now)]_vars
    /\ [][poll_count' = poll_count + 1 => now - proc_start <= max_wait_time]_vars
    /\ [][(file \in Files /\ file' = file /\ phase[file] # "timed_out"
                /\ phase'[file] = "timed_out")
            => now - proc_start > max_wait_time]_vars
    /\ []((file \in Files /\ phase[file] = "timed_out")
            => now - proc_start > max_wait_time)

\* a second file, begun after time went by on the first and on its own
\* transfer, is answered COMPLETED by a poll at the very end of its budget
C11_Witness ==
    /\ file = 2
    /\ file_start >= 1
    /\ proc_start >= 1
    /\ observed = "COMPLETED"
    /\ last_event.phase = "polling"
    /\ last_event.elapsed_time = max_wait_time
    /\ file_start + now > max_wait_time

\* an error happens to the current file in this step: a request of upload_file
\* fails, the PUT is answered 400 or more, the remote reports FAILED, a status
\* request raises, or the budget runs out
ErrorStep ==
    /\ file \in Files /\ file' = file
    /\ \/ fault' # fault
       \/ (put_status = 0 /\ put_status' >= 400)
       \/ (observed = "NONE" /\ observed' = "FAILED")
       \/ emitted'["polling_error"] = emitted["polling_error"] + 1
       \/ (phase[file] # "timed_out" /\ phase'[file] = "timed_out")

C13_Cancellation ==
    /\ [][Len(results') = Len(results) + 1 =>
            LET i == Len(results')
                r == results'[i] IN
            /\ r.file_path = i
            /\ last_event'.phase = (IF r.success THEN "file_complete" ELSE "file_error")
            /\ last_event'.filename = i
            /\ shown'.filename = i
            /\ shown'.line = (IF r.success THEN "completed successfully"
                              ELSE "failed with error")
            /\ ~r.success => shown'.error = r.error]_vars
    /\ [][(ret.kind # "None" /\ ret'.kind = "None") =>
            /\ pc' = "cancelled"
            /\ results' = results /\ phase' = phase
            /\ last_event' = last_event /\ shown' = shown]_vars
    /\ [][ret.kind = "None" =>
            /\ cur' = cur /\ file' = file /\ phase' = phase /\ results' = results
            /\ calls' = calls /\ emitted' = emitted /\ last_event' = last_event]_vars
    /\ [](pc = "cancelled" =>
            /\ ret = [kind |-> "None", value |-> <<>>]
            /\ ~report.printed
            /\ bulk_events = 0)

\* Ctrl+C after the first of two files was resolved and reported, the second
\* not yet begun
C13_Witness ==
    /\ pc = "cancelled"
    /\ total = 2
    /\ Len(results) = 1
    /\ file = 1
    /\ phase[2] = "queued"
    /\ last_event.phase \in {"file_complete", "file_error"}
    /\ last_event.filename = 1

\* a setting of the script is empty
SettingMissing == config.api_key = "" \/ config.api_secret = "" \/ config.org_id = ""

\* C14: with the key, the secret or the organization id missing the script
\* stops in run() with "Missing API credentials!" before anything is done for
\* a file: no file is started, no link is asked for, no byte is sent, no event
\* is reported and no outcome is made, and nothing happens after the stop;
\* upload_file asks for a link only with an organization id
C14_ConfigRejected ==
    /\ [](SettingMissing =>
            /\ pc \in {"start", "rejected"}
            /\ file = 0
            /\ calls = NoCalls
            /\ emitted = NoEvents
            /\ last_event.phase = "none"
            /\ results = <<>>
            /\ \A i \in Files : phase[i] = "queued"
            /\ now = 0)
    /\ []((SettingMissing /\ pc = "rejected") => shown.line = "Missing API credentials!")
    /\ [](pc = "rejected" => (file = 0 /\ calls = NoCalls /\ ret.kind = "pending"))
    /\ [][pc # "rejected"]_vars
    /\ [](calls.link >= 1 => config.org_id # "")

\* the organization id alone is missing and there are files to upload
C14_Witness ==
    /\ pc = "rejected"
    /\ config = [api_key |-> "key", api_secret |-> "secret", org_id |-> ""]
    /\ total = MaxTasks
    /\ shown.line = "Missing API credentials!"

\* C15: progress_callback returns for every event value: each of the nine
\* phases, an unknown phase, no phase, keys left out, values it cannot format,
\* and values that are no dictionary. What the body cannot format ends in the
\* handler, which prints the exception in place of the event.
C15_CallbackNeverRaises ==
    /\ [](cb_state # "raised")
    /\ [](cb_state = "returned" =>
            /\ cb_shown.line # "nothing"
            /\ (cb_shown.line = "ERROR in progress callback")
                 <=> (BodyError(cb_event) # "none")
            /\ (cb_shown.line = "ERROR in progress callback")
                 => cb_shown.error \in {"TypeError", "ValueError", "AttributeError"})

\* an upload_complete event whose duration is a text: the format {:.1f} fails
\* with ValueError, the handler reports it and the callback returns
C15_Witness ==
    /\ cb_state = "returned"
    /\ Get(cb_event, "phase", "") = "upload_complete"
    /\ TypeOf(cb_event, "upload_duration") = "str"
    /\ cb_shown = [line |-> "ERROR in progress callback", error |-> "ValueError"]

\* C16: a PUT answered with a status outside 200..299 makes upload_file raise:
\* upload/complete is not sent for that file and the file ends failed
C16_Non2xxFails ==
    [](( /\ file \in Files
         /\ put_status # 0
         /\ ~(put_status >= 200 /\ put_status <= 299))
        => ( /\ calls.complete = 0
             /\ step \notin {"complete", "done"}
             /\ phase[file] = "failed"))

\* What the entries of the pool are, by hand: the category of each name, in
\* the order of PoolOrder
ExpectedCategory ==
    <<"VIDEO", "UNKNOWN", "VIDEO", "AUDIO", "UNKNOWN", "IMAGE", "VIDEO", "IMAGE", "VIDEO">>
CategoryOfEntry(e) == ExpectedCategory[CHOOSE i \in 1..Len(PoolOrder) : PoolOrder[i] = e]
PathOf(e) == Append(e.dir, e.name)
Paths(list) == {list[i].relative_path : i \in 1..Len(list)}
AllCategories == {"VIDEO", "AUDIO", "IMAGE", "UNKNOWN"}
ScanOk == scan_state = "done" /\ scan_result.raised = "none"
Requested == {scan_types.types[i] : i \in 1..Len(scan_types.types)}

\* The files the scan goes through: the files of the folder (of its subtree
\* when recursive) that the pattern matches
Listed ==
    {e \in scan_tree :
        /\ e.kind = "file"
        /\ e.name[1] # "."
        /\ IF scan_recursive THEN \A i \in 1..Len(e.dir) : e.dir[i][1] # "."
           ELSE e.dir = <<>>}

\* C17: a file is classified by its extension whatever its case (video.MP4 is
\* VIDEO, clip.mov is UNKNOWN), and with a list of categories given the
\* result holds, in the list of each category, exactly the files gone through
\* whose category is VIDEO, AUDIO or IMAGE and is in the list: no UNKNOWN
\* file, no file of a category not asked for
C17_FilterByCategory ==
    /\ [](\A i \in 1..Len(PoolOrder) :
            get_file_type(PoolOrder[i].name) = ExpectedCategory[i])
    /\ []((ScanOk /\ scan_types.given) =>
            \A c \in AllCategories :
                Paths(scan_result.files[c])
                  = {PathOf(e) : e \in {x \in Listed :
                                          /\ CategoryOfEntry(x) = c
                                          /\ c # "UNKNOWN"
                                          /\ c \in Requested}})

\* video.MP4 and clip.mov scanned for VIDEO: the first is in, the second is not
C17_Witness ==
    /\ ScanOk
    /\ scan_types = [given |-> TRUE, types |-> <<"VIDEO">>]
    /\ scan_tree = {PoolOrder[1], PoolOrder[2], PoolOrder[4]}
    /\ Paths(scan_result.files.VIDEO) = {PathOf(PoolOrder[1])}
    /\ scan_result.total_files = 1

\* C18 as claimed: scanned with no list of categories, the files with an
\* unrecognized extension are in the result, in the UNKNOWN list
C18_UnknownKeptWithoutFilter ==
    []((ScanOk /\ ~scan_types.given) =>
        \A e \in Listed :
            CategoryOfEntry(e) = "UNKNOWN" => PathOf(e) \in Paths(scan_result.files.UNKNOWN))

\* C18, amended: scanned with no list of categories, the result holds exactly
\* the files gone through whose extension is a supported one, each in the list
\* of its category; a file with an unrecognized extension is in no result,
\* with a list or without: the UNKNOWN list is always empty
C18_UnknownNeverListed ==
    /\ [](ScanOk => scan_result.files.UNKNOWN = <<>>)
    /\ []((ScanOk /\ ~scan_types.given) =>
            \A c \in AllCategories :
                Paths(scan_result.files[c])
                  = {PathOf(e) : e \in {x \in Listed :
                                          CategoryOfEntry(x) = c /\ c # "UNKNOWN"}})

\* a.mp4, clip.mov and c.txt scanned with no list: a.mp4 alone is returned
C18_Witness ==
    /\ ScanOk
    /\ ~scan_types.given
    /\ scan_tree = {PoolOrder[2], PoolOrder[3], PoolOrder[5]}
    /\ scan_result.total_files = 1
    /\ Paths(scan_result.files.VIDEO) = {PathOf(PoolOrder[3])}

RECURSIVE SumOfSizes(_)
SumOfSizes(S) ==
    IF S = {} THEN 0
    ELSE LET e == CHOOSE x \in S : TRUE IN e.size + SumOfSizes(S \ {e})

\* the entries of the folder that are in some list of the result
Included == {e \in scan_tree : \E c \in AllCategories : PathOf(e) \in Paths(scan_result.files[c])}

\* C19: in a result every file is in one list only, that of its category, and
\* once; each listed file is a file of the folder with its own size;
\* total_files is the number of listed files and total_size the sum of their
\* sizes, the files left out adding nothing. a.mp4 (10485760 bytes), b.wav
\* (2097152) and c.txt scanned for VIDEO and AUDIO give 2 files and 12582912
\* bytes.
C19_CountsAndSizes ==
    /\ [](ScanOk =>
            /\ \A c \in AllCategories :
                 LET list == scan_result.files[c] IN
                 /\ \A i, j \in 1..Len(list) :
                        list[i].relative_path = list[j].relative_path => i = j
                 /\ \A i \in 1..Len(list) :
                        \E e \in scan_tree :
                            /\ PathOf(e) = list[i].relative_path
                            /\ e.kind = "file"
                            /\ e.size = list[i].size
                            /\ e.name = list[i].name
                            /\ CategoryOfEntry(e) = c
            /\ \A c, d \in AllCategories :
                 c # d => Paths(scan_result.files[c]) \cap Paths(scan_result.files[d]) = {}
            /\ scan_result.total_files = Cardinality(Included)
            /\ scan_result.total_size = SumOfSizes(Included))
    /\ []((/\ ScanOk
            /\ scan_tree = {PoolOrder[3], PoolOrder[4], PoolOrder[5]}
            /\ scan_types = [given |-> TRUE, types |-> <<"VIDEO", "AUDIO">>])
           => (/\ scan_result.total_files = 2
               /\ scan_result.total_size = 12582912
               /\ Included = {PoolOrder[3], PoolOrder[4]}))

\* the scenario of the claim, not recursive
C19_Witness ==
    /\ ScanOk
    /\ ~scan_recursive
    /\ scan_tree = {PoolOrder[3], PoolOrder[4], PoolOrder[5]}
    /\ scan_types = [given |-> TRUE, types |-> <<"VIDEO", "AUDIO">>]
    /\ scan_result.total_files = 2
    /\ scan_result.total_size = 10485760 + 2097152

\* the files of the folder whose category is asked for (any supported one
\* when no list is given), and the paths of a result
Matching ==
    {e \in scan_tree :
        /\ e.kind = "file"
        /\ CategoryOfEntry(e) # "UNKNOWN"
        /\ scan_types.given => CategoryOfEntry(e) \in Requested}
ResultPaths == UNION {Paths(scan_result.files[c]) : c \in AllCategories}

\* C20 as claimed: not recursive, the result holds only matching files that
\* are immediate children of the folder; recursive, it holds the matching
\* files of the whole subtree, the immediate children among them
C20_RecursiveWholeSubtree ==
    [](ScanOk =>
        IF scan_recursive
        THEN ResultPaths = {PathOf(e) : e \in Matching}
        ELSE ResultPaths \subseteq {PathOf(e) : e \in {x \in Matching : x.dir = <<>>}})

\* the matching files that no leading dot hides: in the folder itself, in its
\* subtree
VisibleChildren == {e \in Matching : e.dir = <<>> /\ e.name[1] # "."}
VisibleSubtree ==
    {e \in Matching : e.name[1] # "." /\ \A i \in 1..Len(e.dir) : e.dir[i][1] # "."}

\* C20, amended: not recursive, the result holds exactly the matching files
\* that are immediate children of the folder and whose name does not begin
\* with a dot; recursive, exactly the matching files of the subtree that have
\* no name beginning with a dot on their path below the folder, which
\* includes every file the scan that is not recursive returns
C20_RecursiveVisibleSubtree ==
    /\ [](ScanOk =>
            ResultPaths = {PathOf(e) : e \in (IF scan_recursive THEN VisibleSubtree
                                              ELSE VisibleChildren)})
    /\ []((ScanOk /\ scan_recursive) =>
            {PathOf(e) : e \in VisibleChildren} \subseteq ResultPaths)

\* a.mp4, sub/d.png, .h.mp4 and .cache/f.jpg scanned recursively with no list:
\* the first two are returned
C20_Witness ==
    /\ ScanOk
    /\ scan_recursive
    /\ ~scan_types.given
    /\ scan_tree = {PoolOrder[3], PoolOrder[6], PoolOrder[7], PoolOrder[8]}
    /\ ResultPaths = {PathOf(PoolOrder[3]), PathOf(PoolOrder[6])}

\* C21: scan_folder raises FileNotFoundError when folder_path does not exist and
\* ValueError when it exists but is no directory, in both cases before it asks
\* glob for anything and without a result; no call of scan_folder, raising or
\* not, changes what is on the file system
C21_RootChecked ==
    [][(scan_state = "ready" /\ scan_state' = "done") =>
         /\ scan_root' = scan_root
         /\ scan_tree' = scan_tree
         /\ scan_root = "missing" =>
              scan_result' = [raised |-> "FileNotFoundError", globs |-> 0]
         /\ scan_root = "file" =>
              scan_result' = [raised |-> "ValueError", globs |-> 0]
         /\ scan_root = "dir" =>
              (scan_result'.raised = "none" /\ scan_result'.globs = 1)]_vars

C21_Witness ==
    /\ scan_state = "done"
    /\ scan_root = "file"
    /\ scan_result.raised = "ValueError"

\* ------------------------------------------------ configure_upload_settings
\* Text is a sequence of one-character strings
DigitChars == <<"0", "1", "2", "3", "4", "5", "6", "7", "8", "9">>
IsDigit(c) == \E i \in 1..10 : DigitChars[i] = c
DigitValue(c) == (CHOOSE i \in 1..10 : DigitChars[i] = c) - 1
AllDigits(s) == \A i \in 1..Len(s) : IsDigit(s[i])

RECURSIVE DigitsValue(_)
DigitsValue(s) ==
    IF s = <<>> THEN 0
    ELSE 10 * DigitsValue(SubSeq(s, 1, Len(s) - 1)) + DigitValue(s[Len(s)])

\* str.strip()
RECURSIVE lstrip(_)
lstrip(s) == IF s # <<>> /\ s[1] = " " THEN lstrip(Tail(s)) ELSE s

RECURSIVE rstrip(_)
rstrip(s) ==
    IF s # <<>> /\ s[Len(s)] = " " THEN rstrip(SubSeq(s, 1, Len(s) - 1)) ELSE s

strip(s) == rstrip(lstrip(s))

\* get_input(msg, default): the answer stripped, the default for an empty one
get_input(answer, default) ==
    LET user_input == strip(answer) IN
    IF user_input = <<>> THEN default ELSE user_input

SignOf(s) == IF s # <<>> /\ s[1] = "-" THEN 0 - 1 ELSE 1
Unsigned(s) == IF s # <<>> /\ s[1] \in {"+", "-"} THEN Tail(s) ELSE s

\* int(text): an optional sign and decimal digits, anything else a ValueError
int(text) ==
    LET body == Unsigned(strip(text)) IN
    IF body # <<>> /\ AllDigits(body)
    THEN [raised |-> "none", value |-> SignOf(strip(text)) * DigitsValue(body)]
    ELSE [raised |-> "ValueError", value |-> 0]

RECURSIVE Power10(_)
Power10(n) == IF n = 0 THEN 1 ELSE 10 * Power10(n - 1)

\* A float the texts below can give: nan, an infinity, or sign * num / 10^scale
Float(kind, sign, num, scale) ==
    [kind |-> kind, sign |-> sign, num |-> num, scale |-> scale]

DotsAt(s) == {i \in 1..Len(s) : s[i] = "."}

\* float(text) for texts without an exponent: an optional sign, then nan, inf,
\* or digits with at most one point and a digit on one side of it at least
float(text) ==
    LET t == strip(text)
        body == Unsigned(t)
        sign == SignOf(t)
        dot == IF DotsAt(body) = {} THEN Len(body) + 1
               ELSE CHOOSE i \in DotsAt(body) : \A j \in DotsAt(body) : i <= j
        whole == SubSeq(body, 1, dot - 1)
        frac == SubSeq(body, dot + 1, Len(body))
    IN  IF body = <<"n", "a", "n">>
        THEN [raised |-> "none", value |-> Float("nan", 1, 0, 0)]
        ELSE IF body = <<"i", "n", "f">>
        THEN [raised |-> "none", value |-> Float("inf", sign, 0, 0)]
        ELSE IF AllDigits(whole) /\ AllDigits(frac) /\ Len(whole) + Len(frac) > 0
        THEN [raised |-> "none",
              value |-> Float("num", sign, DigitsValue(whole \o frac), Len(frac))]
        ELSE [raised |-> "ValueError", value |-> Float("nan", 1, 0, 0)]

\* 0.0 <= temperature <= 1.0, false for nan as every comparison with it
InUnitInterval(t) ==
    /\ t.kind = "num"
    /\ t.num = 0 \/ (t.sign = 1 /\ t.num <= Power10(t.scale))

maxFirst(a, b) == a

max(a, b) == IF b > a THEN b ELSE a

\* The try blocks of the temperature and of the two integer settings
temperature_setting(answer) ==
    LET t == float(get_input(answer, <<"0", ".", "7">>)) IN
    IF t.raised = "ValueError" THEN Float("num", 1, 7, 1)
    ELSE IF ~InUnitInterval(t.value) THEN Float("num", 1, 7, 1)
    ELSE t.value

integer_setting(answer, default, minimum) ==
    LET v == int(get_input(answer, default)) IN
    IF v.raised = "ValueError" THEN int(default).value
    ELSE IF v.value < minimum THEN max(v.value, minimum)
    ELSE v.value

configure_upload_settings(input) ==
    [returned |-> TRUE,
     temperature |-> temperature_setting(input.temperature),
     max_wait_time |->
        integer_setting(input.max_wait_time, <<"1", "8", "0", "0">>, 300),
     poll_interval |-> integer_setting(input.poll_interval, <<"1", "5">>, 5)]

\* Answers at an integer prompt and at the temperature prompt
IntegerAnswers ==
    {<<>>,
     <<"1", "5">>,
     <<"4">>,
     <<"5">>,
     <<"0">>,
     <<"-", "3">>,
     <<"2", "9", "9">>,
     <<"3", "0", "0">>,
     <<"1", "8", "0", "0">>,
     <<"3", ".", "5">>,
     <<"a", "b", "c">>,
     <<" ", "7", " ">>,
     <<"+", "2", "0">>,
     <<"-">>}

TemperatureAnswers ==
    {<<>>,
     <<"0", ".", "7">>,
     <<"0">>,
     <<"1">>,
     <<"1", ".", "0">>,
     <<"0", ".", "3", "5">>,
     <<"1", ".", "5">>,
     <<"-", "0", ".", "1">>,
     <<"n", "a", "n">>,
     <<"i", "n", "f">>,
     <<"a", "b", "c">>,
     <<".", "5">>,
     <<"1", ".", "0", "0", "0", "1">>,
     <<"-", "0", ".", "0">>,
     <<"2">>,
     <<" ", "0", ".", "2">>,
     <<"1", ".">>,
     <<".">>}

SettingsInit ==
    /\ BatchOff
    /\ CallbackOff
    /\ ScanOff
    /\ ToolsOffButSettings
    /\ set_state = "ready"
    /\ set_input \in [temperature : TemperatureAnswers,
                      max_wait_time : IntegerAnswers,
                      poll_interval : IntegerAnswers]
    /\ set_result = [returned |-> FALSE]

\* One run of configure_upload_settings
configure ==
    /\ set_state = "ready"
    /\ set_state' = "done"
    /\ set_result' = configure_upload_settings(set_input)
    /\ UNCHANGED <<set_input, besideSettings>>

SettingsNext == configure

SettingsSpec == SettingsInit /\ [][SettingsNext]_vars

\* The integer an answer stands for, if it is one
IsInteger(answer) == int(get_input(answer, <<"x">>)).raised = "none"
IntegerOf(answer) == int(answer).value

\* C22: whatever is typed, the settings returned have poll_interval >= 5,
\* max_wait_time >= 300 and a temperature in [0.0, 1.0]; an integer below the
\* minimum becomes the minimum, a larger one is kept; a temperature that is no
\* number or outside [0.0, 1.0] becomes 0.7; an empty or unparsable integer
\* becomes the default, 1800 and 15
C22_SettingsInRange ==
    set_state = "done" =>
        /\ set_result.poll_interval >= 5
        /\ set_result.max_wait_time >= 300
        /\ InUnitInterval(set_result.temperature)
        /\ set_result.temperature.sign = 1 \/ set_result.temperature.num = 0
        /\ set_result.max_wait_time =
             IF ~IsInteger(set_input.max_wait_time) THEN 1800
             ELSE IF IntegerOf(set_input.max_wait_time) < 300 THEN 300
             ELSE IntegerOf(set_input.max_wait_time)
        /\ set_result.poll_interval =
             IF ~IsInteger(set_input.poll_interval) THEN 15
             ELSE IF IntegerOf(set_input.poll_interval) < 5 THEN 5
             ELSE IntegerOf(set_input.poll_interval)
        /\ set_input.temperature \in
             {<<>>, <<"1", ".", "5">>, <<"-", "0", ".", "1">>, <<"n", "a", "n">>, <<"i", "n", "f">>, <<"a", "b", "c">>, <<"1", ".", "0", "0", "0", "1">>, <<"2">>, <<".">>}
             => set_result.temperature = Float("num", 1, 7, 1)
        /\ set_input.temperature = <<"0", ".", "3", "5">>
             => set_result.temperature = Float("num", 1, 35, 2)
        /\ set_input.max_wait_time \in {<<>>, <<"3", ".", "5">>, <<"a", "b", "c">>, <<"-">>}
             => set_result.max_wait_time = 1800
        /\ set_input.poll_interval = <<"-", "3">> => set_result.poll_interval = 5

C22_Witness ==
    /\ set_state = "done"
    /\ set_input.poll_interval = <<"4">>
    /\ set_input.max_wait_time = <<"a", "b", "c">>
    /\ set_input.temperature = <<"1", ".", "5">>
    /\ set_result.poll_interval = 5
    /\ set_result.max_wait_time = 1800

\* The requests of the upload_file call for the latest file, as a step sends them
Sends(endpoint) == file' = file /\ calls'[endpoint] > calls[endpoint]

\* C23: one call of upload_file asks for the upload link, PUTs the bytes and
\* POSTs upload/complete in that order and each once at most: the PUT is sent
\* only after the link request returned, the completion only after the PUT was
\* answered with a status below 400, and after a link request or a PUT that
\* failed nothing more is sent
C23_ThreeStepsInOrder ==
    [][/\ Sends("link") =>
            calls = NoCalls /\ calls'.link = 1
       /\ Sends("put") =>
            /\ calls.link = 1 /\ calls.put = 0 /\ calls.complete = 0
            /\ calls'.put = 1
            /\ fault = "none"
       /\ Sends("complete") =>
            /\ calls.link = 1 /\ calls.put = 1 /\ calls.complete = 0
            /\ calls'.complete = 1
            /\ fault = "none"
            /\ put_status \in 1..399
       /\ (fault \in {"org", "link"} /\ file' = file) =>
            calls'.put = 0 /\ calls'.complete = 0
       /\ ((fault = "put" \/ put_status >= 400) /\ file' = file) =>
            calls'.complete = 0]_vars

C23_Witness ==
    /\ file \in Files
    /\ calls.link = 1 /\ calls.put = 1 /\ calls.complete = 1
    /\ put_status = 200
    /\ step = "done"

\* ----------------------------------------------------- bulk_upload_workflow
MaxScanned == 2

startswith(s, prefix) ==
    Len(s) >= Len(prefix) /\ SubSeq(s, 1, Len(prefix)) = prefix

\* get_input("Continue with these files? (y/n)", default="y").lower().startswith('y')
Continues(answer) == startswith(Lower(get_input(answer, <<"y">>)), <<"y">>)

\* The confirmation taken as the question before it is
ConfirmedByPrefix(answer) == startswith(Lower(strip(answer)), <<"y">>)

\* confirm_upload_menu: get_input(...).lower() in ['yes', 'y']
confirm_upload_menu(answer) ==
    Lower(strip(answer)) \in {<<"y", "e", "s">>, <<"y">>}

ContinueAnswers == {<<>>, <<"y">>, <<"Y">>, <<"y", "e", "s">>, <<"n">>, <<"n", "o">>, <<"Y", "e", "a", "h">>, <<"m", "a", "y", "b", "e">>}

\* The confirmation is required: an empty answer is asked for again
ConfirmAnswers == {<<"y", "e", "s">>, <<"y">>, <<"Y", "E", "S">>, <<"Y">>, <<"n", "o">>, <<"n">>, <<"y", "e", "a", "h">>, <<"y", "e">>, <<"y", "e", "s", " ", "p", "l", "e", "a", "s", "e">>}

\* None (Back), the root, a folder below it
Destinations ==
    {[none |-> TRUE, path |-> <<>>],
     [none |-> FALSE, path |-> <<"/">>],
     [none |-> FALSE, path |-> <<"/", "a">>]}

WorkflowInit ==
    /\ BatchOff
    /\ CallbackOff
    /\ ScanOff
    /\ ToolsOffButWorkflow
    /\ wf_pc = "client"
    /\ wf_done = <<>>
    /\ wf_total_files = 0
    /\ wf_continue = <<>>
    /\ wf_destination = [none |-> TRUE, path |-> <<>>]
    /\ wf_confirm = <<>>
    /\ wf_uploads = 0

\* One step of the workflow: it goes on to the next one or returns
WorkflowStep(from, ok, to) ==
    /\ wf_pc = from
    /\ wf_done' = Append(wf_done, from)
    /\ wf_pc' = IF ok THEN to ELSE "returned"

\* StorylinezClient(API_KEY, API_SECRET, org_id=ORG_ID), which may raise
init_client ==
    /\ \E raised \in BOOLEAN : WorkflowStep("client", ~raised, "folder")
    /\ UNCHANGED <<wf_total_files, wf_continue, wf_destination, wf_confirm,
                   wf_uploads, besideWorkflow>>

\* browse_local_folder_menu: a folder or nothing
browse_local_folder ==
    /\ \E chosen \in BOOLEAN : WorkflowStep("folder", chosen, "scan")
    /\ UNCHANGED <<wf_total_files, wf_continue, wf_destination, wf_confirm,
                   wf_uploads, besideWorkflow>>

\* The two menus of the scan and scan_folder, which may raise
scan_step ==
    /\ wf_pc = "scan"
    /\ \E raised \in BOOLEAN, total_files \in 0..MaxScanned :
         /\ wf_total_files' = IF raised THEN 0 ELSE total_files
         /\ WorkflowStep("scan", ~raised /\ total_files # 0, "continue")
    /\ UNCHANGED <<wf_continue, wf_destination, wf_confirm, wf_uploads,
                   besideWorkflow>>

continue_question ==
    /\ \E answer \in ContinueAnswers :
         /\ wf_continue' = answer
         /\ WorkflowStep("continue", Continues(answer), "destination")
    /\ UNCHANGED <<wf_total_files, wf_destination, wf_confirm, wf_uploads,
                   besideWorkflow>>

select_destination ==
    /\ \E destination_path \in Destinations :
         /\ wf_destination' = destination_path
         /\ WorkflowStep("destination", ~destination_path.none, "confirm")
    /\ UNCHANGED <<wf_total_files, wf_continue, wf_confirm, wf_uploads,
                   besideWorkflow>>

\* configure_upload_settings, then confirm_upload_menu
confirm_step ==
    /\ \E answer \in ConfirmAnswers :
         /\ wf_confirm' = answer
         /\ WorkflowStep("confirm", confirm_upload_menu(answer), "upload")
    /\ UNCHANGED <<wf_total_files, wf_continue, wf_destination, wf_uploads,
                   besideWorkflow>>

\* perform_bulk_upload(client, all_files, destination_path, upload_settings)
workflow_upload ==
    /\ WorkflowStep("upload", FALSE, "returned")
    /\ wf_uploads' = wf_uploads + 1
    /\ UNCHANGED <<wf_total_files, wf_continue, wf_destination, wf_confirm,
                   besideWorkflow>>

WorkflowNext ==
    \/ init_client
    \/ browse_local_folder
    \/ scan_step
    \/ continue_question
    \/ select_destination
    \/ confirm_step
    \/ workflow_upload

WorkflowSpec == WorkflowInit /\ [][WorkflowNext]_vars

\* C24: perform_bulk_upload is called, once, only after the scan found a file,
\* then the user answered the question to continue with y (or nothing, or a
\* word beginning with y), then a destination other than None was chosen, then
\* the upload was confirmed with yes or y in any case of letters; a workflow
\* that returned without all four has not called it
C24_UploadOnlyAfterAllHeld ==
    LET AllHeld ==
          /\ wf_total_files >= 1
          /\ wf_continue \in {<<>>, <<"y">>, <<"Y">>, <<"y", "e", "s">>, <<"Y", "e", "a", "h">>}
          /\ ~wf_destination.none
          /\ wf_confirm \in {<<"y", "e", "s">>, <<"y">>, <<"Y", "E", "S">>, <<"Y">>}
    IN  /\ wf_uploads <= 1
        /\ (wf_pc = "upload" \/ wf_uploads = 1) =>
             /\ AllHeld
             /\ SubSeq(wf_done, 1, 6) =
                  <<"client", "folder", "scan", "continue", "destination", "confirm">>
        /\ (wf_pc = "returned" /\ ~AllHeld) => wf_uploads = 0
        /\ (wf_pc = "returned" /\ wf_uploads = 0 /\ Len(wf_done) = 6) => ~AllHeld

C24_Witness ==
    /\ wf_pc = "returned"
    /\ wf_uploads = 1
    /\ wf_total_files = 2
    /\ wf_confirm = <<"Y", "E", "S">>

\* ------------------------------------ run_web_scraping_and_brand_extraction
\* A job id as a response holds it: an id, the empty text, or "None" for null
\* and for a response without the key, as dict.get gives it
JobIds == {"job-1", "job-2", "", "None"}

\* "result" of a finished job ("None": null or no such key)
JobResults == {"data-1", "data-2", "None"}

\* What a call of utils_client may raise (AttributeError: UtilsClient itself
\* defines no wait_for_job_completion)
RequestErrors == {"Exception", "TimeoutError", "AttributeError"}

\* Only a missing job id taken for none
IsNone(job_id) == job_id = "None"

\* not job_id
Not(job_id) == job_id \in {"", "None"}

Call(name, arg) == [call |-> name, arg |-> arg]

PipelineRaises(error) ==
    /\ pl_pc' = "raised"
    /\ pl_outcome' = [kind |-> "raised", error |-> error]

PipelineInit ==
    /\ BatchOff
    /\ CallbackOff
    /\ ScanOff
    /\ ToolsOffButPipeline
    /\ pl_pc = "start"
    /\ pl_log = <<>>
    /\ pl_web_job = [job_id |-> "None"]
    /\ pl_web_result = [result |-> "None"]
    /\ pl_brand_job = [job_id |-> "None"]
    /\ pl_outcome = [kind |-> "pending"]

\* Step 1: POST web-scraping, then the check of its job id
start_web_scraping ==
    /\ pl_pc = "start"
    /\ pl_log' = Append(pl_log, Call("POST web-scraping", "url"))
    /\ \/ \E job_id \in JobIds :
            /\ pl_web_job' = [job_id |-> job_id]
            /\ IF Not(job_id)
               THEN PipelineRaises("Failed to start web scraping job")
               ELSE pl_pc' = "wait_web" /\ UNCHANGED pl_outcome
       \/ \E e \in RequestErrors : PipelineRaises(e) /\ UNCHANGED pl_web_job
    /\ UNCHANGED <<pl_web_result, pl_brand_job, besidePipeline>>

\* Step 2: wait_for_job_completion of the web scraping job
wait_web_scraping ==
    /\ pl_pc = "wait_web"
    /\ pl_log' = Append(pl_log, Call("wait_for_job_completion", pl_web_job.job_id))
    /\ \/ \E result \in JobResults :
            /\ pl_web_result' = [result |-> result]
            /\ pl_pc' = "brand"
            /\ UNCHANGED pl_outcome
       \/ \E e \in RequestErrors : PipelineRaises(e) /\ UNCHANGED pl_web_result
    /\ UNCHANGED <<pl_web_job, pl_brand_job, besidePipeline>>

\* Step 3: POST brand-extraction with the scraped data, then the check of its
\* job id
start_brand_extraction ==
    /\ pl_pc = "brand"
    /\ pl_log' = Append(pl_log, Call("POST brand-extraction", pl_web_result.result))
    /\ \/ \E job_id \in JobIds :
            /\ pl_brand_job' = [job_id |-> job_id]
            /\ IF Not(job_id)
               THEN PipelineRaises("Failed to start brand extraction job")
               ELSE pl_pc' = "wait_brand" /\ UNCHANGED pl_outcome
       \/ \E e \in RequestErrors : PipelineRaises(e) /\ UNCHANGED pl_brand_job
    /\ UNCHANGED <<pl_web_job, pl_web_result, besidePipeline>>

\* Steps 4 and 5: wait_for_job_completion of the brand extraction job, then
\* the two results returned
wait_brand_extraction ==
    /\ pl_pc = "wait_brand"
    /\ pl_log' = Append(pl_log, Call("wait_for_job_completion", pl_brand_job.job_id))
    /\ \/ \E result \in JobResults :
            /\ pl_pc' = "returned"
            /\ pl_outcome' = [kind |-> "returned",
                              web_scraping |-> pl_web_result.result,
                              brand_extraction |-> result]
       \/ \E e \in RequestErrors : PipelineRaises(e)
    /\ UNCHANGED <<pl_web_job, pl_web_result, pl_brand_job, besidePipeline>>

PipelineNext ==
    \/ start_web_scraping
    \/ wait_web_scraping
    \/ start_brand_extraction
    \/ wait_brand_extraction

PipelineSpec == PipelineInit /\ [][PipelineNext]_vars

Sent(name) == {i \in 1..Len(pl_log) : pl_log[i].call = name}

\* C25: the brand-extraction request is sent once at most, as the third call,
\* after the web-scraping request that returned a job id and after the wait for
\* that job, which returned; it carries the result of that wait. When the
\* web-scraping start gave no job id (null, absent, empty), or the wait for it
\* raised, no brand-extraction request was sent and the pipeline raised
\* instead of returning
C25_BrandAfterWebScraping ==
    /\ Cardinality(Sent("POST brand-extraction")) <= 1
    /\ Sent("POST brand-extraction") # {} =>
         /\ pl_log[1] = Call("POST web-scraping", "url")
         /\ pl_web_job.job_id \in {"job-1", "job-2"}
         /\ pl_log[2] = Call("wait_for_job_completion", pl_web_job.job_id)
         /\ pl_log[3] = Call("POST brand-extraction", pl_web_result.result)
    /\ (Len(pl_log) >= 1 /\ pl_web_job.job_id \in {"", "None"}) =>
         /\ pl_log = <<Call("POST web-scraping", "url")>>
         /\ pl_outcome.kind = "raised"
    /\ (Len(pl_log) = 2 /\ pl_pc = "raised") =>
         /\ Sent("POST brand-extraction") = {}
         /\ pl_outcome.kind = "raised"
    /\ pl_outcome.kind = "returned" <=> pl_pc = "returned"
    /\ pl_pc = "returned" => Len(pl_log) = 4

C25_Witness ==
    /\ pl_pc = "returned"
    /\ pl_web_job.job_id = "job-2"
    /\ pl_log[3] = Call("POST brand-extraction", "data-1")
    /\ pl_outcome.web_scraping = "data-1"

\* ------------------------------------- auto_video_builder: render and wait
MaxRenderPolls == 3

\* "status" of a get_render response: "absent" for a response without the key,
\* "None" for null, a status in small letters, one the script does not know
RenderStatuses ==
    {"COMPLETED", "FAILED", "PENDING", "PROCESSING", "absent", "None",
     "completed", "QUEUED"}

\* render_results.get("status", "PENDING")
StatusOf(status) == IF status = "absent" THEN "PENDING" ELSE status

\* Every status but the two of a render under way ends the wait
NotUnderWay(status) == status \notin {"PENDING", "PROCESSING"}

\* wait_for_render: the two branches with a break
EndsWait(status) == status \in {"COMPLETED", "FAILED"}

RenderInit ==
    /\ BatchOff
    /\ CallbackOff
    /\ ScanOff
    /\ ToolsOffButRender
    /\ rn_pc = "menu"
    /\ rn_choice = "none"
    /\ rn_caller = "none"
    /\ rn_jobs = 0
    /\ rn_waits = 0
    /\ rn_polls = 0
    /\ rn_status = "none"
    /\ rn_exit = "none"

\* wait_for_render(client, project_id) is entered
EnterWait(caller) ==
    /\ rn_pc' = "wait"
    /\ rn_caller' = caller
    /\ rn_waits' = rn_waits + 1
    /\ rn_polls' = 0
    /\ rn_status' = "none"
    /\ rn_exit' = "none"

\* wait_for_render returns: to render_menu, which breaks and returns to run,
\* or to run, which goes back to the main menu
LeaveWait(how) ==
    /\ rn_exit' = how
    /\ rn_pc' = IF rn_caller = "render_menu" THEN "after_menu" ELSE "done"
    /\ rn_caller' = "none"

\* render_menu, [R]: create_render, then wait_for_render
start_rendering ==
    /\ rn_pc = "menu"
    /\ rn_choice' = "R"
    /\ \/ /\ rn_jobs' = rn_jobs + 1
          /\ EnterWait("render_menu")
       \/ /\ rn_pc' = "raised"
          /\ UNCHANGED <<rn_caller, rn_jobs, rn_waits, rn_polls, rn_status, rn_exit>>
    /\ UNCHANGED besideRender

\* render_menu, [B]: back, no render started
back_to_project ==
    /\ rn_pc = "menu"
    /\ rn_choice' = "B"
    /\ rn_pc' = "after_menu"
    /\ UNCHANGED <<rn_caller, rn_jobs, rn_waits, rn_polls, rn_status, rn_exit,
                   besideRender>>

\* run, the statement after render_menu: wait_for_render(client, project_id)
run_wait_for_render ==
    /\ rn_pc = "after_menu"
    /\ EnterWait("run")
    /\ UNCHANGED <<rn_choice, rn_jobs, besideRender>>

\* wait_for_render: one round of its loop, get_render and the branch on status
poll_render ==
    /\ rn_pc = "wait"
    /\ rn_polls' = Min(rn_polls + 1, MaxRenderPolls)
    /\ \/ \E status \in RenderStatuses :
            /\ rn_status' = StatusOf(status)
            /\ IF EndsWait(StatusOf(status))
               THEN LeaveWait(StatusOf(status))
               ELSE UNCHANGED <<rn_pc, rn_caller, rn_exit>>
       \/ /\ rn_pc' = "raised"
          /\ UNCHANGED <<rn_caller, rn_status, rn_exit>>
    /\ UNCHANGED <<rn_choice, rn_jobs, rn_waits, besideRender>>

\* wait_for_render: Ctrl+C in the loop
interrupt_render ==
    /\ rn_pc = "wait"
    /\ LeaveWait("interrupt")
    /\ UNCHANGED <<rn_choice, rn_jobs, rn_waits, rn_polls, rn_status, besideRender>>

RenderNext ==
    \/ start_rendering
    \/ back_to_project
    \/ run_wait_for_render
    \/ poll_render
    \/ interrupt_render

RenderSpec == RenderInit /\ [][RenderNext]_vars

\* C26: wait_for_render returns only from a poll that saw COMPLETED or FAILED,
\* or on a keyboard interrupt; a poll that saw anything else (PENDING,
\* PROCESSING, no status, null, an unknown one) is followed by the next poll,
\* however many polls there were before
C26_WaitEndsOnTerminalStatus ==
    [][/\ (rn_pc = "wait" /\ rn_pc' \in {"after_menu", "done"}) =>
            \/ rn_exit' = "interrupt" /\ rn_polls' = rn_polls
            \/ /\ rn_status' \in {"COMPLETED", "FAILED"}
               /\ rn_exit' = rn_status'
               /\ rn_polls' = Min(rn_polls + 1, MaxRenderPolls)
       /\ (rn_pc' = "wait" /\ rn_polls' > 0) =>
            /\ rn_status' \in {"PENDING", "PROCESSING", "None", "completed", "QUEUED"}
            /\ ENABLED poll_render
       /\ (rn_pc = "wait" /\ rn_polls' # rn_polls
             /\ rn_status' \notin {"COMPLETED", "FAILED"} /\ rn_pc' # "raised") =>
            rn_pc' = "wait"]_vars

C26_Witness ==
    /\ rn_pc = "wait"
    /\ rn_polls = MaxRenderPolls
    /\ rn_status = "QUEUED"

\* C27: the script polls for a render only when render_menu started one, and
\* once per job at most; after Back in render_menu no polling starts
C27_PollsOnlyForStartedRender ==
    /\ rn_waits <= rn_jobs
    /\ rn_choice = "B" => rn_waits = 0

\* -------------------------------------------- browse_storylinez_folders_menu
MaxDepth == 3

\* Names of folders as the storage lists them: path components, with a letter
\* repeated, a blank or a dot, and the name put for a folder without one
FolderNames == {<<"a">>, <<"b", "b">>, <<"c", " ", "d">>, <<"e", ".", "f">>, <<"U", "n", "n", "a", "m", "e", "d">>}

\* 'folders' of a get_folder_contents response
FolderLists ==
    {<<>>} \cup {<<n>> : n \in FolderNames}
    \cup {<<<<"a">>, <<"b", "b">>>>,
          <<<<"c", " ", "d">>, <<"a">>, <<"e", ".", "f">>>>}

\* current_path.rstrip("/")
RECURSIVE rstripSlash(_)
rstripSlash(s) ==
    IF s # <<>> /\ s[Len(s)] = "/" THEN rstripSlash(SubSeq(s, 1, Len(s) - 1)) ELSE s

\* s.split("/"): the pieces between the slashes, empty ones kept
RECURSIVE split(_)
split(s) ==
    IF \A i \in 1..Len(s) : s[i] # "/" THEN <<s>>
    ELSE LET i == CHOOSE i \in 1..Len(s) :
                    s[i] = "/" /\ \A j \in 1..(i - 1) : s[j] # "/"
         IN  <<SubSeq(s, 1, i - 1)>> \o split(SubSeq(s, i + 1, Len(s)))

\* "/".join(parts)
RECURSIVE join(_)
join(parts) ==
    IF parts = <<>> THEN <<>>
    ELSE IF Len(parts) = 1 THEN parts[1]
    ELSE parts[1] \o <<"/">> \o join(Tail(parts))

\* The joined path taken as it is
OrNothing(path) == path

\* path or "/"
OrRoot(path) == IF path = <<>> THEN <<"/">> ELSE path

\* "/".join(current_path.rstrip("/").split("/")[:-1]) or "/"
ParentPath(current_path) ==
    LET parts == split(rstripSlash(current_path)) IN
    OrRoot(join(SubSeq(parts, 1, Len(parts) - 1)))

\* current_path.rstrip("/") + "/" + folder_name, less the first of two slashes
ChildPath(current_path, folder_name) ==
    LET path == rstripSlash(current_path) \o <<"/">> \o folder_name IN
    IF startswith(path, <<"/", "/">>) THEN Tail(path) ELSE path

Depth(path) == Cardinality({i \in 1..Len(path) : path[i] = "/" /\ i < Len(path)})

BrowseInit ==
    /\ BatchOff
    /\ CallbackOff
    /\ ScanOff
    /\ ToolsOffButBrowse
    /\ br_pc = "menu"
    /\ br_path = <<"/">>
    /\ br_prev = <<"/">>
    /\ br_last = "none"
    /\ br_parent_offered = FALSE
    /\ br_menu_path = <<"/">>
    /\ br_ret = [none |-> TRUE, path |-> <<>>]

\* The menu is shown for the folders listed; options: the parent unless at the
\* root, the folders, create, select, back
ShowMenu ==
    /\ br_menu_path' = br_path
    /\ br_parent_offered' = (br_path # <<"/">>)

OptionCount(folders) == (IF br_path # <<"/">> THEN 1 ELSE 0) + Len(folders) + 3

\* One round of the loop: the folders are listed, the menu shown, and the
\* choice (an index into the options) handled
browse_round ==
    /\ br_pc = "menu"
    /\ ShowMenu
    /\ \E folders \in FolderLists : \E chosen \in 0..(OptionCount(folders) - 1) :
         LET choice == IF br_path # <<"/">> THEN chosen - 1 ELSE chosen
             remaining_choice == choice - Len(folders)
         IN  IF br_path # <<"/">> /\ chosen = 0
             THEN /\ br_path' = ParentPath(br_path)
                  /\ br_prev' = br_path
                  /\ br_last' = "parent"
                  /\ UNCHANGED <<br_pc, br_ret>>
             ELSE IF choice < Len(folders)
             THEN /\ Depth(br_path) < MaxDepth \/ br_path = <<"/">>
                  /\ br_path' = ChildPath(br_path, folders[choice + 1])
                  /\ br_prev' = br_path
                  /\ br_last' = "enter"
                  /\ UNCHANGED <<br_pc, br_ret>>
             ELSE IF remaining_choice = 0
             THEN /\ br_last' = "create"
                  /\ UNCHANGED <<br_pc, br_path, br_prev, br_ret>>
             ELSE IF remaining_choice = 1
             THEN /\ br_last' = "select"
                  /\ br_pc' = "returned"
                  /\ br_ret' = [none |-> FALSE, path |-> br_path]
                  /\ UNCHANGED <<br_path, br_prev>>
             ELSE /\ br_last' = "back"
                  /\ br_pc' = "returned"
                  /\ br_ret' = [none |-> TRUE, path |-> <<>>]
                  /\ UNCHANGED <<br_path, br_prev>>
    /\ UNCHANGED besideBrowse

\* get_folder_contents raises: the menu returns None
browse_error ==
    /\ br_pc = "menu"
    /\ ShowMenu
    /\ br_last' = "error"
    /\ br_pc' = "returned"
    /\ br_ret' = [none |-> TRUE, path |-> <<>>]
    /\ UNCHANGED <<br_path, br_prev, besideBrowse>>

BrowseNext == browse_round \/ browse_error

BrowseSpec == BrowseInit /\ [][BrowseNext]_vars

\* An absolute path in normal form: one slash in front, no two slashes in a
\* row, none at the end unless the path is the root
Normalised(path) ==
    /\ path # <<>>
    /\ path[1] = "/"
    /\ \A i \in 1..(Len(path) - 1) : ~(path[i] = "/" /\ path[i + 1] = "/")
    /\ Len(path) > 1 => path[Len(path)] # "/"

\* C28: whatever folders are entered and left, current_path stays an absolute
\* path in normal form; going to the parent right after entering a folder gives
\* the path from before the folder was entered; and no menu shown for the root
\* has the parent option
C28_PathNormalised ==
    [][/\ Normalised(br_path')
       /\ (br_last = "enter" /\ br_last' = "parent") => br_path' = br_prev
       /\ br_last' = "enter" =>
            \E n \in FolderNames : br_path' = rstripSlash(br_path) \o <<"/">> \o n
       /\ (br_parent_offered' /\ br_pc = "menu") => br_path # <<"/">>
       /\ (br_pc = "menu" /\ br_path # <<"/">>) => br_parent_offered'
       /\ br_last' = "select" => br_ret' = [none |-> FALSE, path |-> br_path]]_vars

C28_Witness ==
    /\ br_last = "parent"
    /\ br_prev = <<"/", "a">>
    /\ br_path = <<"/">>

\* --------------------------------------- auto_video_builder: browse_folders_menu
MaxFolders == 21

page_size == 10

\* The screen for a folder list of total_folders entries: the empty screen, or
\* the page folders[start_idx:end_idx], which is empty when start_idx is past
\* the end
Screen(current_page, total_folders) ==
    IF total_folders = 0
    THEN [kind |-> "empty", current_page |-> current_page, total_pages |-> 0,
          displayed |-> 0]
    ELSE LET total_pages == (total_folders + page_size - 1) \div page_size
             start_idx == (current_page - 1) * page_size
             end_idx == Min(start_idx + page_size, total_folders)
         IN  [kind |-> "page",
              current_page |-> current_page,
              total_pages |-> total_pages,
              displayed |-> IF end_idx > start_idx THEN end_idx - start_idx ELSE 0]

PageInit ==
    /\ BatchOff
    /\ CallbackOff
    /\ ScanOff
    /\ ToolsOffButPage
    /\ pg_pc = "browse"
    /\ pg_page = 1
    /\ pg_shown = [kind |-> "none", current_page |-> 0, total_pages |-> 0,
                   displayed |-> 0]
    /\ pg_last = "none"

\* One round of the loop: get_all_folders answers with a list of any length,
\* the screen for it is shown, and the choice is read
Round(choice) ==
    /\ pg_pc = "browse"
    /\ pg_last' = choice
    /\ \E total_folders \in 0..MaxFolders :
         pg_shown' = Screen(pg_page, total_folders)

\* [C]: create_folder_menu, then the next round
page_create ==
    /\ Round("C")
    /\ UNCHANGED <<pg_pc, pg_page, besidePage>>

\* [N], taken only on a page before the last
page_next ==
    /\ Round("N")
    /\ pg_page' = IF pg_shown'.kind = "page" /\ pg_page < pg_shown'.total_pages
                  THEN pg_page + 1 ELSE pg_page
    /\ UNCHANGED <<pg_pc, besidePage>>

\* [P], taken only on a page after the first
page_previous ==
    /\ Round("P")
    /\ pg_page' = IF pg_shown'.kind = "page" /\ pg_page > 1
                  THEN pg_page - 1 ELSE pg_page
    /\ UNCHANGED <<pg_pc, besidePage>>

\* [B]: return None
page_back ==
    /\ Round("B")
    /\ pg_pc' = "returned"
    /\ UNCHANGED <<pg_page, besidePage>>

\* A number of a folder on the page: its folder_id is returned
page_select ==
    /\ Round("number")
    /\ pg_shown'.kind = "page"
    /\ pg_shown'.displayed >= 1
    /\ pg_pc' = "returned"
    /\ UNCHANGED <<pg_page, besidePage>>

PageNext ==
    \/ page_create
    \/ page_next
    \/ page_previous
    \/ page_back
    \/ page_select

PageSpec == PageInit /\ [][PageNext]_vars

\* C29: every page shown has 1 <= current_page <= total_pages and a folder on
\* it at least, whatever was chosen before and whatever lists the remote gave
C29_PageInRange ==
    pg_shown.kind = "page" =>
        /\ 1 <= pg_shown.current_page
        /\ pg_shown.current_page <= pg_shown.total_pages
        /\ pg_shown.displayed >= 1

\* --------------------------- auto_video_builder: browse_user_files_menu, multi_select
\* file_id of the files listed ("None": a file without one)
FileIds == {"file-1", "file-2", "file-3", "None"}

\* list.remove(x): the list without the first x
RECURSIVE remove(_, _)
remove(list, x) ==
    IF list = <<>> THEN <<>>
    ELSE IF list[1] = x THEN Tail(list)
    ELSE <<list[1]>> \o remove(Tail(list), x)

\* A chosen file always added
toggleAppends(selected_files, file_id) == Append(selected_files, file_id)

\* The toggle of the file chosen: removed if it is in selected_files, appended
\* if not
toggle(selected_files, file_id) ==
    IF \E i \in 1..Len(selected_files) : selected_files[i] = file_id
    THEN remove(selected_files, file_id)
    ELSE Append(selected_files, file_id)

SelectInit ==
    /\ BatchOff
    /\ CallbackOff
    /\ ScanOff
    /\ ToolsOffButSelect
    /\ sel_pc = "browse"
    /\ sel_files = <<>>
    /\ sel_before = <<>>
    /\ sel_last = [kind |-> "none", file_id |-> ""]
    /\ sel_ret = [kind |-> "pending", value |-> <<>>]

\* The number of a listed file is entered (a list of ids without repeats is
\* never longer than there are ids)
choose_file ==
    /\ sel_pc = "browse"
    /\ Len(sel_files) <= Cardinality(FileIds)
    /\ \E file_id \in FileIds :
         /\ sel_files' = toggle(sel_files, file_id)
         /\ sel_last' = [kind |-> "file", file_id |-> file_id]
    /\ sel_before' = sel_files
    /\ UNCHANGED <<sel_pc, sel_ret, besideSelect>>

\* [D]: returns selected_files if there are any, else the menu is shown again
choose_done ==
    /\ sel_pc = "browse"
    /\ sel_last' = [kind |-> "D", file_id |-> ""]
    /\ IF sel_files # <<>>
       THEN /\ sel_pc' = "returned"
            /\ sel_ret' = [kind |-> "list", value |-> sel_files]
       ELSE UNCHANGED <<sel_pc, sel_ret>>
    /\ UNCHANGED <<sel_files, sel_before, besideSelect>>

\* [B]: return []
choose_back ==
    /\ sel_pc = "browse"
    /\ sel_last' = [kind |-> "B", file_id |-> ""]
    /\ sel_pc' = "returned"
    /\ sel_ret' = [kind |-> "list", value |-> <<>>]
    /\ UNCHANGED <<sel_files, sel_before, besideSelect>>

\* get_folder_contents raises at the root: return None
browse_files_error ==
    /\ sel_pc = "browse"
    /\ sel_last' = [kind |-> "error", file_id |-> ""]
    /\ sel_pc' = "returned"
    /\ sel_ret' = [kind |-> "None", value |-> <<>>]
    /\ UNCHANGED <<sel_files, sel_before, besideSelect>>

SelectNext ==
    \/ choose_file
    \/ choose_done
    \/ choose_back
    \/ browse_files_error

SelectSpec == SelectInit /\ [][SelectNext]_vars

Ids(list) == {list[i] : i \in 1..Len(list)}

\* C30: with multi_select, choosing a listed file adds its id to the selection
\* if it is not in it and takes it out if it is; the selection never holds an
\* id twice; choosing the same file twice in a row gives the selection of
\* before the two choices (the same ids; the same list when the first choice
\* added the file); Done returns the selection, and only a non-empty one;
\* Back returns the empty list
C30_ToggleSelection ==
    [][/\ Cardinality(Ids(sel_files')) = Len(sel_files')
       /\ sel_last'.kind = "file" =>
            /\ sel_last'.file_id \in Ids(sel_files') <=>
                 sel_last'.file_id \notin Ids(sel_files)
            /\ Ids(sel_files') \ {sel_last'.file_id} = Ids(sel_files) \ {sel_last'.file_id}
       /\ (sel_last.kind = "file" /\ sel_last' = sel_last) =>
            /\ Ids(sel_files') = Ids(sel_before)
            /\ sel_last.file_id \notin Ids(sel_before) => sel_files' = sel_before
       /\ sel_last'.kind = "D" =>
            IF sel_files = <<>>
            THEN sel_pc' = "browse" /\ sel_ret'.kind = "pending"
            ELSE sel_pc' = "returned" /\ sel_ret' = [kind |-> "list", value |-> sel_files]
       /\ sel_last'.kind = "B" =>
            sel_pc' = "returned" /\ sel_ret' = [kind |-> "list", value |-> <<>>]]_vars

C30_Witness ==
    /\ sel_pc = "returned"
    /\ sel_last.kind = "D"
    /\ sel_before = <<"file-2", "file-1", "file-3">>
    /\ sel_ret.value = <<"file-2", "file-3">>

====
